---- MODULE Spec2Model ----
(***************************************************************************)
(* State-machine model of the Sonoff/Tasmota -> Zigbee2MQTT bridge scripts. *)
(*                                                                         *)
(* Spec  : the multi-relay Sonoff bridge (src/Sonoff_to_Z2M.js).            *)
(* SpecT : the Tasmota bridge scripts (src/unnamed/part_000, the first two  *)
(*         scripts of that file; `variant` says which of the two runs).     *)
(* SpecU : the Sonoff Data Updater (src/unnamed/part_000, the third script). *)
(*                                                                         *)
(* JavaScript is single threaded: every handler runs to completion, so one *)
(* action is one handler.  initialize() is one handler too; it is unfolded *)
(* into Initialize, one ProcessSonoffDevice step per scanned folder and     *)
(* FinishInitialize, and no other action is enabled between these steps.    *)
(***************************************************************************)
EXTENDS Integers, Sequences, FiniteSets

(***************************************************************************)
(* JavaScript values.  A string is a sequence of one-character strings, so *)
(* that toLowerCase, toUpperCase, replace and substring are computed.      *)
(***************************************************************************)
Null == [t |-> "null", b |-> FALSE, s |-> <<>>, n |-> 0]

JBool(x) == [t |-> "boolean", b |-> x, s |-> <<>>, n |-> 0]

JStr(x) == [t |-> "string", b |-> FALSE, s |-> x, n |-> 0]

JNum(x) == [t |-> "number", b |-> FALSE, s |-> <<>>, n |-> x]

\* ToBoolean: what `v ? a : b` and `!v` test.
Truthy(v) ==
    CASE v.t = "boolean" -> v.b
      [] v.t = "string" -> v.s # <<>>
      [] v.t = "number" -> v.n # 0
      [] OTHER -> FALSE

\* A template string `${base}${i}`; i = 0 stands for the bare base.
Name(base, i) == [base |-> base, i |-> i]

LowerChar(c) ==
    CASE c = "A" -> "a" [] c = "B" -> "b" [] c = "C" -> "c" [] c = "D" -> "d"
      [] c = "E" -> "e" [] c = "F" -> "f" [] c = "G" -> "g" [] c = "L" -> "l"
      [] c = "N" -> "n" [] c = "O" -> "o" [] c = "T" -> "t" [] c = "R" -> "r"
      [] c = "U" -> "u"
      [] OTHER -> c

UpperChar(c) ==
    CASE c = "a" -> "A" [] c = "b" -> "B" [] c = "c" -> "C" [] c = "d" -> "D"
      [] c = "e" -> "E" [] c = "f" -> "F" [] c = "g" -> "G" [] c = "l" -> "L"
      [] c = "n" -> "N" [] c = "o" -> "O" [] c = "t" -> "T" [] c = "r" -> "R"
      [] c = "u" -> "U"
      [] OTHER -> c

ToLowerCase(s) == [k \in 1..Len(s) |-> LowerChar(s[k])]

ToUpperCase(s) == [k \in 1..Len(s) |-> UpperChar(s[k])]

\* s.replace(/:/g, '')
StripColons(s) == SelectSeq(s, LAMBDA c : c # ":")

\* s.substring(k) with a 0-based start
Substring(s, k) == IF k >= Len(s) THEN <<>> ELSE SubSeq(s, k + 1, Len(s))

HexDigit(c) ==
    CASE c = "0" -> 0 [] c = "1" -> 1 [] c = "2" -> 2 [] c = "3" -> 3
      [] c = "4" -> 4 [] c = "5" -> 5 [] c = "6" -> 6 [] c = "7" -> 7
      [] c = "8" -> 8 [] c = "9" -> 9
      [] c \in {"a", "A"} -> 10 [] c \in {"b", "B"} -> 11
      [] c \in {"c", "C"} -> 12 [] c \in {"d", "D"} -> 13
      [] c \in {"e", "E"} -> 14 [] c \in {"f", "F"} -> 15
      [] OTHER -> -1

RECURSIVE HexPrefix(_, _)
\* The value of the longest prefix of hex digits of s, continuing from acc.
HexPrefix(s, acc) ==
    IF s = <<>> \/ HexDigit(Head(s)) < 0 THEN acc
    ELSE HexPrefix(Tail(s), acc * 16 + HexDigit(Head(s)))

\* NaN, which no parsed number equals.
NaN == 0 - 1

\* parseInt(s, 16): NaN when s does not start with a hex digit.
ParseIntHex(s) ==
    IF s = <<>> \/ HexDigit(Head(s)) < 0 THEN NaN ELSE HexPrefix(s, 0)

(***************************************************************************)
(* Program constants (src/Sonoff_to_Z2M.js).                               *)
(***************************************************************************)
MaxRelays == 28

RelayLo == 224

RelayHi == 251

RelayInvLo == 256

RelayInvHi == 283

LinkQuality == 255

z2mBaseTopic == "zigbee2mqtt"

IeeePrefix == <<"0", "x", "0", "0", "0", "0">>

(***************************************************************************)
(* Bounds of the model and the inputs the environment draws from.          *)
(***************************************************************************)
\* Native state events carry a relay number in 0..MaxRelayNum.
MaxRelayNum == 2

\* Device folders of the Sonoff adapter (the folder name is the friendlyName),
\* in the order in which the scan finds them.
FolderOrder == <<"plug", "strip">>

Folders == {FolderOrder[k] : k \in 1..Len(FolderOrder)}

\* A name no folder has: events and commands for an unknown device.
Ghost == "ghost"

EventNames == Folders \cup {Ghost}

MacA == <<"6", "0", ":", "0", "1", ":", "9", "4", ":", "C", "C", ":", "5", "E", ":", "4", "4">>

MacB == <<"A", "0", ":", "2", "0", ":", "A", "6", ":", "1", "B", ":", "0", "0", ":", "F", "F">>

\* MacA as a hardware identifier written without separators.
MacAPlain == StripColons(MacA)

OneRelay == <<JNum(RelayLo)>>

\* Two relay role codes (the two ends of the two ranges) among a code just
\* below the first range and a GPIO state without a value.
TwoRelays == <<JNum(RelayInvHi), JNum(RelayLo - 1), Null, JNum(RelayInvLo)>>

\* Role codes just outside the two relay ranges.
NoRelayCodes == <<JNum(RelayHi + 1), JNum(RelayInvLo - 1), JNum(RelayInvHi + 1)>>

FullRelays == [k \in 1..MaxRelays |-> JNum(RelayLo + k - 1)]

TooManyRelays == Append(FullRelays, JNum(RelayInvLo))

\* The STATUS.StatusNET_Mac value and the GPIO_* values of the two folders.
StoreOf(plugMac, plugGpios, stripMac, stripGpios) ==
    [f \in Folders |-> IF f = "plug" THEN [mac |-> plugMac, gpios |-> plugGpios]
                                     ELSE [mac |-> stripMac, gpios |-> stripGpios]]

\* The contents of the adapter's state store the model is run on: two devices;
\* two folders reporting the same MAC (a renamed device's stale folder); a
\* folder without MAC beside one whose GPIO codes are no relay codes; a device
\* with MaxRelays relays (its MAC written without separators) beside one with
\* one relay more; a folder without GPIO states beside a single-relay device.
Stores ==
    << StoreOf(JStr(MacA), OneRelay, JStr(MacB), TwoRelays),
       StoreOf(JStr(MacA), OneRelay, JStr(MacA), TwoRelays),
       StoreOf(Null, OneRelay, JStr(MacB), NoRelayCodes),
       StoreOf(JStr(MacAPlain), FullRelays, JStr(MacB), TooManyRelays),
       StoreOf(JStr(MacA), <<>>, JStr(MacB), OneRelay) >>

StoreBools == {Null, JBool(TRUE), JBool(FALSE)}

\* The POWER / POWERx states of one folder: the value of POWER (key 0) and of
\* POWER1..; a state that does not exist reads as null.
PowerStores ==
    { [k \in 0..MaxRelayNum |-> Null],
      [k \in 0..MaxRelayNum |-> IF k = 2 THEN JBool(FALSE) ELSE JBool(TRUE)] }

\* Values a POWER* or alive state change may carry.
EventValues == {JBool(TRUE), JBool(FALSE), JNum(1)}

\* The value of the events for a name no device has and for relay number 0.
GhostValue == JBool(TRUE)

VARIABLES
    store,          \* which of Stores the adapter's state store holds
    pc,             \* "boot", "scan", "run", "stopped": where the script is
    toScan,         \* the device folders scanSonoffDevices has still to process
    sonoffDevices,  \* the Map<MAC, DeviceInfo>, in insertion order
    initialized,    \* the global flag
    published,      \* the messages the last handler gave to publishMqtt, in order
    nativeCmds,     \* the setState calls of the last handler, in order
    evt,            \* the event the last handler was called with
    lastSnap,       \* per display name, the last state snapshot published
    lastMarker,     \* per display name, the last availability marker published
    changed,        \* whether the last handler changed the registry
    rep,            \* what the previous handler did, when it was called with the
                    \* same event as the last one (NoRep otherwise)
    variant,        \* which script runs: "sonoff", the Tasmota bridge "v1" / "v2",
                    \* or "updater"
    tasmotaDevices, \* the Map<MAC, device> of the Tasmota bridges, in insertion order
    updater         \* the Data Updater script: its position, the state store it
                    \* reads and the HTTP requests it has sent

vars == <<store, pc, toScan, sonoffDevices, initialized, published, nativeCmds, evt, lastSnap, lastMarker,
          changed, rep, variant, tasmotaDevices, updater>>

\* The variables of the Tasmota bridges.
tasmotaVars == <<variant, tasmotaDevices>>

\* The variable of the Data Updater, and its value while another script runs.
updaterVars == <<updater>>

NoUpdater == [pc |-> "off"]

(***************************************************************************)
(* Pure helpers of the Sonoff bridge.                                      *)
(***************************************************************************)
\* macToIeee that keeps the separators.
macToIeeeKeepSeparators(mac) == IeeePrefix \o ToLowerCase(mac)

\* macToIeee: "60:01:94:CC:5E:44" -> "0x0000600194cc5e44"
macToIeee(mac) == IeeePrefix \o ToLowerCase(StripColons(mac))

\* IsRelayValue with one range from the first relay code to the last.
IsRelayValueOneRange(v) ==
    /\ v # Null
    /\ v.t = "number"
    /\ v.n >= RelayLo
    /\ v.n <= RelayInvHi

\* The test of parseGPIOs on one GPIO value.
IsRelayValue(v) ==
    /\ v # Null
    /\ v.t = "number"
    /\ \/ (v.n >= RelayLo /\ v.n <= RelayHi)
       \/ (v.n >= RelayInvLo /\ v.n <= RelayInvHi)

RECURSIVE CountRelays(_)
CountRelays(gpios) ==
    IF gpios = <<>> THEN 0
    ELSE (IF IsRelayValue(Head(gpios)) THEN 1 ELSE 0) + CountRelays(Tail(gpios))

\* parseGPIOs: the number of GPIO_* states whose value is a relay role code.
parseGPIOs(gpios) == CountRelays(gpios)

\* StateProperty that gives every relay a suffixed key.
StatePropertySuffixed(relayCount, i) == Name("state_l", i)

\* The state property of relay i of a device with relayCount relays.
StateProperty(relayCount, i) ==
    IF relayCount = 1 THEN Name("state", 0) ELSE Name("state_l", i)

NoEndpoint == Name("", 0)

SwitchExpose(relayCount, i) ==
    [ type |-> "switch", endpoint |-> Name("l", i), name |-> "state",
      property |-> StateProperty(relayCount, i), access |-> 7,
      value_min |-> 0, value_max |-> 0 ]

LinkqualityExpose ==
    [ type |-> "numeric", endpoint |-> NoEndpoint, name |-> "linkquality",
      property |-> Name("linkquality", 0), access |-> 1,
      value_min |-> 0, value_max |-> LinkQuality ]

\* createZ2MDeviceDefinition with a single switch expose and a single endpoint,
\* however many relays the device has.
createZ2MDeviceDefinitionOneSwitch(deviceInfo) ==
    [ ieee_address |-> macToIeee(deviceInfo.mac),
      type |-> "Router",
      network_address |-> ParseIntHex(Substring(StripColons(deviceInfo.mac), 8)),
      friendly_name |-> deviceInfo.friendlyName,
      exposes |-> <<SwitchExpose(deviceInfo.relayCount, 1), LinkqualityExpose>>,
      endpoints |-> <<Name("l", 1)>>,
      interview_completed |-> TRUE,
      interview_state |-> "SUCCESSFUL" ]

\* createZ2MDeviceDefinition: one switch expose per relay, then linkquality;
\* one endpoint-map entry per relay.
createZ2MDeviceDefinition(deviceInfo) ==
    [ ieee_address |-> macToIeee(deviceInfo.mac),
      type |-> "Router",
      network_address |-> ParseIntHex(Substring(StripColons(deviceInfo.mac), 8)),
      friendly_name |-> deviceInfo.friendlyName,
      exposes |-> [k \in 1..(deviceInfo.relayCount + 1) |->
                      IF k <= deviceInfo.relayCount
                      THEN SwitchExpose(deviceInfo.relayCount, k)
                      ELSE LinkqualityExpose],
      endpoints |-> [k \in 1..deviceInfo.relayCount |-> Name("l", k)],
      interview_completed |-> TRUE,
      interview_state |-> "SUCCESSFUL" ]

(***************************************************************************)
(* The registry: a JavaScript Map, kept as the sequence of its values in   *)
(* insertion order.  Map.set on a present key replaces the value in place. *)
(***************************************************************************)
MapHas(map, key) == \E k \in 1..Len(map) : map[k].mac = key

MapIndex(map, key) == CHOOSE k \in 1..Len(map) : map[k].mac = key

MapGet(map, key) == map[MapIndex(map, key)]

MapSet(map, key, value) ==
    IF MapHas(map, key)
    THEN [map EXCEPT ![MapIndex(map, key)] = value]
    ELSE Append(map, value)

\* FindByFriendlyName that takes the first device when no name matches.
FindByFriendlyNameOrFirst(map, name) ==
    IF \E k \in 1..Len(map) : map[k].friendlyName = name
    THEN CHOOSE k \in 1..Len(map) :
            /\ map[k].friendlyName = name
            /\ \A j \in 1..(k - 1) : map[j].friendlyName # name
    ELSE IF map = <<>> THEN 0 ELSE 1

\* The loop `for (const [mac, dev] of sonoffDevices) if (dev.friendlyName === name)`:
\* the index of the first match, 0 when there is none.
FindByFriendlyName(map, name) ==
    IF \E k \in 1..Len(map) : map[k].friendlyName = name
    THEN CHOOSE k \in 1..Len(map) :
            /\ map[k].friendlyName = name
            /\ \A j \in 1..(k - 1) : map[j].friendlyName # name
    ELSE 0

\* FindByZ2MName that takes the first device when no name matches.
FindByZ2MNameOrFirst(map, name) ==
    IF \E k \in 1..Len(map) : map[k].z2mDevice.friendly_name = name
    THEN CHOOSE k \in 1..Len(map) :
            /\ map[k].z2mDevice.friendly_name = name
            /\ \A j \in 1..(k - 1) : map[j].z2mDevice.friendly_name # name
    ELSE IF map = <<>> THEN 0 ELSE 1

\* FindByZ2MName that takes the last device with the name.
FindByZ2MNameLast(map, name) ==
    IF \E k \in 1..Len(map) : map[k].z2mDevice.friendly_name = name
    THEN CHOOSE k \in 1..Len(map) :
            /\ map[k].z2mDevice.friendly_name = name
            /\ \A j \in (k + 1)..Len(map) : map[j].z2mDevice.friendly_name # name
    ELSE 0

\* The same loop over dev.z2mDevice.friendly_name (handleZ2MSetCommand).
FindByZ2MName(map, name) ==
    IF \E k \in 1..Len(map) : map[k].z2mDevice.friendly_name = name
    THEN CHOOSE k \in 1..Len(map) :
            /\ map[k].z2mDevice.friendly_name = name
            /\ \A j \in 1..(k - 1) : map[j].z2mDevice.friendly_name # name
    ELSE 0

(***************************************************************************)
(* Publishing.                                                             *)
(***************************************************************************)
\* publishMqtt: one sendTo of {topic: base/topic, message}.
Msg(topic, payload) == [topic |-> <<z2mBaseTopic>> \o topic, payload |-> payload]

ON == <<"O", "N">>

OFF == <<"O", "F", "F">>

TOGGLE == <<"T", "O", "G", "G", "L", "E">>

\* OnOff that renders every value as OFF.
OnOffStuck(v) == JStr(OFF)

\* states[i] ? 'ON' : 'OFF'
OnOff(v) == IF Truthy(v) THEN JStr(ON) ELSE JStr(OFF)

\* StatePayload with the state of the first relay only.
StatePayloadFirstOnly(relayCount, states) ==
    [k \in {Name("linkquality", 0), StateProperty(relayCount, 1)} |->
        IF k = Name("linkquality", 0) THEN JNum(LinkQuality) ELSE OnOff(states[1])]

\* The payload publishDeviceState builds from `states`.
StatePayload(relayCount, states) ==
    IF relayCount = 1
    THEN [k \in {Name("linkquality", 0), Name("state", 0)} |->
            IF k = Name("linkquality", 0) THEN JNum(LinkQuality)
            ELSE OnOff(states[1])]
    ELSE [k \in {Name("linkquality", 0)} \cup {Name("state_l", i) : i \in 1..relayCount} |->
            IF k = Name("linkquality", 0) THEN JNum(LinkQuality)
            ELSE OnOff(states[k.i])]

\* AvailabilityPayload that always says online.
AvailabilityPayloadOnline(available) == [state |-> "online"]

AvailabilityPayload(available) ==
    [state |-> IF available THEN "online" ELSE "offline"]

\* publishDeviceState that publishes the availability marker only.
publishDeviceStateMarkerOnly(map, mac, states, available) ==
    IF ~MapHas(map, mac) THEN <<>>
    ELSE << Msg(<<MapGet(map, mac).z2mDevice.friendly_name, "availability">>,
                AvailabilityPayload(available)) >>

\* publishDeviceState(mac, states, available): nothing for an unknown mac, else
\* the state snapshot and then the availability marker.
publishDeviceState(map, mac, states, available) ==
    IF ~MapHas(map, mac) THEN <<>>
    ELSE LET device == MapGet(map, mac)
             friendlyName == device.z2mDevice.friendly_name
         IN  << Msg(<<friendlyName>>, StatePayload(device.relayCount, states)),
                Msg(<<friendlyName, "availability">>, AvailabilityPayload(available)) >>

CoordinatorEntry ==
    [ ieee_address |-> <<"0", "x", "0", "0", "d", "e", "a", "d", "0", "b", "e", "e", "f", "0", "b", "a", "b", "e">>,
      type |-> "Coordinator",
      network_address |-> 0,
      friendly_name |-> "Coordinator",
      exposes |-> <<>>,
      endpoints |-> <<>>,
      interview_completed |-> TRUE,
      interview_state |-> "SUCCESSFUL" ]

\* publishBridgeTopics that lists the devices that are not offline.
publishBridgeTopicsOnlineOnly(map) ==
    LET live == SelectSeq(map, LAMBDA d : d.lastAvailable # JBool(FALSE))
    IN  << Msg(<<"bridge", "info">>, [version |-> "1.39.0", permit_join |-> FALSE]),
           Msg(<<"bridge", "devices">>,
               <<CoordinatorEntry>> \o [k \in 1..Len(live) |-> live[k].z2mDevice]),
           Msg(<<"bridge", "groups">>, <<>>),
           Msg(<<"bridge", "extensions">>, <<>>),
           Msg(<<"bridge", "state">>, [state |-> "online"]) >>

\* publishBridgeTopics that lists the first device of the map only.
publishBridgeTopicsFirstDevice(map) ==
    << Msg(<<"bridge", "info">>, [version |-> "1.39.0", permit_join |-> FALSE]),
       Msg(<<"bridge", "devices">>,
           <<CoordinatorEntry>> \o [k \in 1..(IF map = <<>> THEN 0 ELSE 1) |-> map[k].z2mDevice]),
       Msg(<<"bridge", "groups">>, <<>>),
       Msg(<<"bridge", "extensions">>, <<>>),
       Msg(<<"bridge", "state">>, [state |-> "online"]) >>

\* publishBridgeTopics without the groups message.
publishBridgeTopicsNoGroups(map) ==
    << Msg(<<"bridge", "info">>, [version |-> "1.39.0", permit_join |-> FALSE]),
       Msg(<<"bridge", "devices">>,
           <<CoordinatorEntry>> \o [k \in 1..Len(map) |-> map[k].z2mDevice]),
       Msg(<<"bridge", "extensions">>, <<>>),
       Msg(<<"bridge", "state">>, [state |-> "online"]) >>

\* publishBridgeTopics with the devices before the coordinator.
publishBridgeTopicsCoordinatorLast(map) ==
    << Msg(<<"bridge", "info">>, [version |-> "1.39.0", permit_join |-> FALSE]),
       Msg(<<"bridge", "devices">>,
           [k \in 1..Len(map) |-> map[k].z2mDevice] \o <<CoordinatorEntry>>),
       Msg(<<"bridge", "groups">>, <<>>),
       Msg(<<"bridge", "extensions">>, <<>>),
       Msg(<<"bridge", "state">>, [state |-> "online"]) >>

\* publishBridgeTopics: info, devices (coordinator first, then every device of
\* the map), groups, extensions, state.
publishBridgeTopics(map) ==
    << Msg(<<"bridge", "info">>, [version |-> "1.39.0", permit_join |-> FALSE]),
       Msg(<<"bridge", "devices">>,
           <<CoordinatorEntry>> \o [k \in 1..Len(map) |-> map[k].z2mDevice]),
       Msg(<<"bridge", "groups">>, <<>>),
       Msg(<<"bridge", "extensions">>, <<>>),
       Msg(<<"bridge", "state">>, [state |-> "online"]) >>

\* A message on a device's state topic: base/<friendlyName>.
IsStateMsg(m) == Len(m.topic) = 2

RECURSIVE SnapAfter(_, _)
\* lastSnap after the messages msgs were published, in order.
SnapAfter(snap, msgs) ==
    IF msgs = <<>> THEN snap
    ELSE LET m == Head(msgs)
         IN  SnapAfter(IF IsStateMsg(m) /\ m.topic[2] \in DOMAIN snap
                       THEN [snap EXCEPT ![m.topic[2]] = <<m.payload>>]
                       ELSE snap,
                       Tail(msgs))

\* A message on a device's availability topic: base/<friendlyName>/availability.
IsMarkerMsg(m) == Len(m.topic) = 3 /\ m.topic[3] = "availability"

RECURSIVE MarkerAfter(_, _)
\* lastMarker after the messages msgs were published, in order.
MarkerAfter(marker, msgs) ==
    IF msgs = <<>> THEN marker
    ELSE LET m == Head(msgs)
         IN  MarkerAfter(IF IsMarkerMsg(m) /\ m.topic[2] \in DOMAIN marker
                         THEN [marker EXCEPT ![m.topic[2]] = <<m.payload>>]
                         ELSE marker,
                         Tail(msgs))

(***************************************************************************)
(* Events.  evt records the handler that ran last and its arguments.       *)
(***************************************************************************)
NoPayload == [kind |-> "none", obj |-> <<>>]

Evt(kind, name, relay, val, payload) ==
    [kind |-> kind, name |-> name, relay |-> relay, val |-> val, payload |-> payload]

NoRep == [same |-> FALSE, snaps |-> 0, cmds |-> <<>>, changed |-> FALSE]

\* The number of state snapshots among msgs.
SnapCount(msgs) == Cardinality({k \in 1..Len(msgs) : IsStateMsg(msgs[k])})

\* rep after an event e is handled.
RepAfter(e) ==
    IF e = evt
    THEN [same |-> TRUE, snaps |-> SnapCount(published), cmds |-> nativeCmds,
          changed |-> changed]
    ELSE NoRep

Init ==
    /\ store \in 1..Len(Stores)
    /\ pc = "boot"
    /\ toScan = <<>>
    /\ sonoffDevices = <<>>
    /\ initialized = FALSE
    /\ published = <<>>
    /\ nativeCmds = <<>>
    /\ evt = Evt("load", "", 0, Null, NoPayload)
    /\ lastSnap = [f \in Folders |-> <<>>]
    /\ lastMarker = [f \in Folders |-> <<>>]
    /\ changed = FALSE
    /\ rep = NoRep
    /\ variant = "sonoff"
    /\ tasmotaDevices = <<>>
    /\ updater = NoUpdater

\* initialize(), up to the point where scanSonoffDevices has collected the
\* device folders: the subscriptions are set up, nothing is published yet.
Initialize ==
    /\ pc = "boot"
    /\ pc' = "scan"
    /\ toScan' = FolderOrder
    /\ published' = <<>>
    /\ nativeCmds' = <<>>
    /\ evt' = Evt("initialize", "", 0, Null, NoPayload)
    /\ UNCHANGED <<store, sonoffDevices, initialized, lastSnap, lastMarker>>
    /\ UNCHANGED <<tasmotaVars, updaterVars>>
    /\ changed' = (sonoffDevices' # sonoffDevices)
    /\ rep' = NoRep

\* getStateValue of POWER (relayCount 1) or POWER<i> in the folder's states.
PowerRead(pw, relayCount, i) ==
    LET key == IF relayCount = 1 THEN 0 ELSE i
    IN  IF key \in DOMAIN pw THEN pw[key] ELSE Null

\* NewDevice with a lastStates array of the largest size.
NewDeviceFixedArray(friendlyName, mac, relayCount, pw, alive) ==
    LET deviceInfo == [ mac |-> mac, friendlyName |-> friendlyName,
                        relayCount |-> relayCount ]
    IN  [ mac |-> mac,
          friendlyName |-> friendlyName,
          relayCount |-> relayCount,
          lastStates |-> [i \in 1..MaxRelays |-> PowerRead(pw, relayCount, i)],
          lastAvailable |-> alive,
          z2mDevice |-> createZ2MDeviceDefinition(deviceInfo) ]

\* The device record processSonoffDevice leaves in the map: lastStates holds
\* every POWER value that is not null, lastAvailable the alive value.
NewDevice(friendlyName, mac, relayCount, pw, alive) ==
    LET deviceInfo == [ mac |-> mac, friendlyName |-> friendlyName,
                        relayCount |-> relayCount ]
    IN  [ mac |-> mac,
          friendlyName |-> friendlyName,
          relayCount |-> relayCount,
          lastStates |-> [i \in 1..relayCount |-> PowerRead(pw, relayCount, i)],
          lastAvailable |-> alive,
          z2mDevice |-> createZ2MDeviceDefinition(deviceInfo) ]

\* initialStates of processSonoffDevice: power !== null ? power : false
InitialStates(relayCount, pw) ==
    [i \in 1..relayCount |->
        IF PowerRead(pw, relayCount, i) # Null THEN PowerRead(pw, relayCount, i)
        ELSE JBool(FALSE)]

\* RelayCountAccepted without the upper limit.
RelayCountAcceptedLoose(relayCount) == relayCount # 0

\* The relay counts processSonoffDevice accepts.
RelayCountAccepted(relayCount) == ~(relayCount = 0 \/ relayCount > MaxRelays)

\* Register that keeps the record a MAC has already.
RegisterKeepFirst(map, mac, device) ==
    IF MapHas(map, mac) THEN map ELSE Append(map, device)

\* The map after processSonoffDevice: sonoffDevices.set(mac, deviceInfo).
Register(map, mac, device) == MapSet(map, mac, device)

\* processSonoffDevice(friendlyName), called by the scan for each device folder;
\* the folder's states are read from the adapter's state store.
ProcessSonoffDevice(friendlyName) ==
    /\ pc = "scan"
    /\ toScan # <<>>
    /\ friendlyName = Head(toScan)
    /\ toScan' = Tail(toScan)
    /\ \E pw \in PowerStores, alive \in StoreBools :
          LET macV == Stores[store][friendlyName].mac
              relayCount == parseGPIOs(Stores[store][friendlyName].gpios)
              accepted == Truthy(macV) /\ RelayCountAccepted(relayCount)
              device == NewDevice(friendlyName, macV.s, relayCount, pw, alive)
              map == Register(sonoffDevices, macV.s, device)
          IN  /\ evt' = Evt("discover", friendlyName,
                            IF Truthy(macV) THEN relayCount ELSE 0, macV, NoPayload)
              /\ IF accepted
                 THEN /\ sonoffDevices' = map
                      /\ published' =
                            IF initialized /\ alive # Null
                            THEN publishDeviceState(map, macV.s,
                                                    InitialStates(relayCount, pw),
                                                    Truthy(alive))
                            ELSE <<>>
                 ELSE /\ sonoffDevices' = sonoffDevices
                      /\ published' = <<>>
    /\ nativeCmds' = <<>>
    /\ lastSnap' = SnapAfter(lastSnap, published')
    /\ lastMarker' = MarkerAfter(lastMarker, published')
    /\ UNCHANGED <<store, pc, initialized>>
    /\ UNCHANGED <<tasmotaVars, updaterVars>>
    /\ changed' = (sonoffDevices' # sonoffDevices)
    /\ rep' = NoRep

\* The rest of initialize(): publishBridgeTopics, initialized = true, and the
\* refresh timer is started.
FinishInitialize ==
    /\ pc = "scan"
    /\ toScan = <<>>
    /\ pc' = "run"
    /\ initialized' = TRUE
    /\ published' = publishBridgeTopics(sonoffDevices)
    /\ nativeCmds' = <<>>
    /\ evt' = Evt("initialized", "", 0, Null, NoPayload)
    /\ UNCHANGED <<store, toScan, sonoffDevices, lastSnap, lastMarker>>
    /\ UNCHANGED <<tasmotaVars, updaterVars>>
    /\ changed' = (sonoffDevices' # sonoffDevices)
    /\ rep' = NoRep

\* const newState = state === true || state === 'true' || state === 1
ToNewState(state) ==
    JBool(state = JBool(TRUE) \/ state = JStr(<<"t", "r", "u", "e">>) \/ state = JNum(1))

\* PowerChangeApplies without the upper limit of the relay index.
PowerChangeAppliesNoUpperLimit(device, relayNum, newState) ==
    LET relayIndex == relayNum - 1
    IN  /\ relayIndex >= 0
        /\ relayIndex < device.relayCount => device.lastStates[relayIndex + 1] # newState

\* PowerChangeApplies without the comparison with the stored value.
PowerChangeAppliesAlways(device, relayNum, newState) ==
    LET relayIndex == relayNum - 1
    IN  relayIndex >= 0 /\ relayIndex < device.relayCount

\* The guard of handleSonoffPowerChange's update: the relay index is one of the
\* device's and the stored value is not (strictly) the new one.
PowerChangeApplies(device, relayNum, newState) ==
    LET relayIndex == relayNum - 1
    IN  /\ relayIndex >= 0
        /\ relayIndex < device.relayCount
        /\ device.lastStates[relayIndex + 1] # newState

\* AvailableForState that takes an unknown availability for offline.
AvailableForStateStrict(device) == device.lastAvailable = JBool(TRUE)

\* const available = device.lastAvailable !== false
AvailableForState(device) == device.lastAvailable # JBool(FALSE)

\* HandleSonoffPowerChange that stores the state of an offline device without
\* publishing it.
HandleSonoffPowerChangeQuietOffline(friendlyName, relayNum, state) ==
    /\ pc = "run"
    /\ evt' = Evt("power", friendlyName, relayNum, state, NoPayload)
    /\ nativeCmds' = <<>>
    /\ LET idx == FindByFriendlyName(sonoffDevices, friendlyName)
           newState == ToNewState(state)
       IN  IF idx # 0 /\ PowerChangeApplies(sonoffDevices[idx], relayNum, newState)
           THEN LET device == [sonoffDevices[idx] EXCEPT !.lastStates[relayNum] = newState]
                    map == [sonoffDevices EXCEPT ![idx] = device]
                IN  /\ sonoffDevices' = map
                    /\ published' = IF AvailableForState(device)
                                    THEN publishDeviceState(map, device.mac,
                                                            device.lastStates, TRUE)
                                    ELSE <<>>
           ELSE /\ sonoffDevices' = sonoffDevices
                /\ published' = <<>>
    /\ lastSnap' = SnapAfter(lastSnap, published')
    /\ lastMarker' = MarkerAfter(lastMarker, published')
    /\ UNCHANGED <<store, pc, toScan, initialized>>
    /\ UNCHANGED <<tasmotaVars, updaterVars>>
    /\ changed' = (sonoffDevices' # sonoffDevices)
    /\ rep' = RepAfter(evt')

\* handleSonoffPowerChange(friendlyName, relayNum, state)
HandleSonoffPowerChange(friendlyName, relayNum, state) ==
    /\ pc = "run"
    /\ evt' = Evt("power", friendlyName, relayNum, state, NoPayload)
    /\ nativeCmds' = <<>>
    /\ LET idx == FindByFriendlyName(sonoffDevices, friendlyName)
           newState == ToNewState(state)
       IN  IF idx # 0 /\ PowerChangeApplies(sonoffDevices[idx], relayNum, newState)
           THEN LET device == [sonoffDevices[idx] EXCEPT !.lastStates[relayNum] = newState]
                    map == [sonoffDevices EXCEPT ![idx] = device]
                IN  /\ sonoffDevices' = map
                    /\ published' = publishDeviceState(map, device.mac, device.lastStates,
                                                       AvailableForState(device))
           ELSE /\ sonoffDevices' = sonoffDevices
                /\ published' = <<>>
    /\ lastSnap' = SnapAfter(lastSnap, published')
    /\ lastMarker' = MarkerAfter(lastMarker, published')
    /\ UNCHANGED <<store, pc, toScan, initialized>>
    /\ UNCHANGED <<tasmotaVars, updaterVars>>
    /\ changed' = (sonoffDevices' # sonoffDevices)
    /\ rep' = RepAfter(evt')

\* const available = alive === true || alive === 'true' || alive === 1
ToAvailable(alive) == ToNewState(alive)

\* The guard of handleSonoffAliveChange's update.
AliveChangeApplies(device, available) == device.lastAvailable # available

\* HandleSonoffAliveChange that forgets the relay states of a device that goes
\* offline.
HandleSonoffAliveChangeForgetStates(friendlyName, alive) ==
    /\ pc = "run"
    /\ evt' = Evt("alive", friendlyName, 0, alive, NoPayload)
    /\ nativeCmds' = <<>>
    /\ LET idx == FindByFriendlyName(sonoffDevices, friendlyName)
           available == ToAvailable(alive)
       IN  IF idx # 0 /\ AliveChangeApplies(sonoffDevices[idx], available)
           THEN LET device == [sonoffDevices[idx] EXCEPT
                                  !.lastAvailable = available,
                                  !.lastStates = IF available.b THEN @
                                                 ELSE [r \in 1..Len(@) |-> Null]]
                    map == [sonoffDevices EXCEPT ![idx] = device]
                IN  /\ sonoffDevices' = map
                    /\ published' = publishDeviceState(map, device.mac, device.lastStates,
                                                       available.b)
           ELSE /\ sonoffDevices' = sonoffDevices
                /\ published' = <<>>
    /\ lastSnap' = SnapAfter(lastSnap, published')
    /\ lastMarker' = MarkerAfter(lastMarker, published')
    /\ UNCHANGED <<store, pc, toScan, initialized>>
    /\ UNCHANGED <<tasmotaVars, updaterVars>>
    /\ changed' = (sonoffDevices' # sonoffDevices)
    /\ rep' = RepAfter(evt')

\* handleSonoffAliveChange(friendlyName, alive)
HandleSonoffAliveChange(friendlyName, alive) ==
    /\ pc = "run"
    /\ evt' = Evt("alive", friendlyName, 0, alive, NoPayload)
    /\ nativeCmds' = <<>>
    /\ LET idx == FindByFriendlyName(sonoffDevices, friendlyName)
           available == ToAvailable(alive)
       IN  IF idx # 0 /\ AliveChangeApplies(sonoffDevices[idx], available)
           THEN LET device == [sonoffDevices[idx] EXCEPT !.lastAvailable = available]
                    map == [sonoffDevices EXCEPT ![idx] = device]
                IN  /\ sonoffDevices' = map
                    /\ published' = publishDeviceState(map, device.mac, device.lastStates,
                                                       available.b)
           ELSE /\ sonoffDevices' = sonoffDevices
                /\ published' = <<>>
    /\ lastSnap' = SnapAfter(lastSnap, published')
    /\ lastMarker' = MarkerAfter(lastMarker, published')
    /\ UNCHANGED <<store, pc, toScan, initialized>>
    /\ UNCHANGED <<tasmotaVars, updaterVars>>
    /\ changed' = (sonoffDevices' # sonoffDevices)
    /\ rep' = RepAfter(evt')

(***************************************************************************)
(* Commands.  A payload is what JSON.parse makes of it: "unparsable" (it    *)
(* throws), "primitive" (null, a number: `in` throws on it) or "object",    *)
(* whose obj maps the keys present to their values.                         *)
(***************************************************************************)
Obj(obj) == [kind |-> "object", obj |-> obj]

State == Name("state", 0)

StateL(i) == Name("state_l", i)

Unparsable == [kind |-> "unparsable", obj |-> <<>>]

Primitive == [kind |-> "primitive", obj |-> <<>>]

Lower(s) == ToLowerCase(s)

\* Command payloads sent to the single-relay folder.
PlugPayloads ==
    { Unparsable,
      Primitive,
      Obj([k \in {State} |-> JStr(TOGGLE)]),
      Obj([k \in {State} |-> JStr(Lower(ON))]),
      Obj([k \in {State} |-> JNum(1)]),
      Obj([k \in {State, StateL(1)} |-> IF k = State THEN JStr(OFF) ELSE JStr(TOGGLE)]),
      Obj([k \in {StateL(1)} |-> JStr(ON)]),
      Obj([k \in {StateL(2), Name("brightness", 0)} |-> JStr(ON)]) }

\* Command payloads sent to the multi-relay folder.
StripPayloads ==
    { Unparsable,
      Obj([k \in {State} |-> JStr(TOGGLE)]),
      Obj([k \in {StateL(1), StateL(2)} |-> IF k = StateL(1) THEN JStr(ON) ELSE JStr(Lower(TOGGLE))]),
      Obj([k \in {StateL(2)} |-> JStr(TOGGLE)]),
      Obj([k \in {StateL(1), StateL(2)} |-> IF k = StateL(1) THEN JBool(TRUE) ELSE JStr(ON)]),
      Obj([k \in {StateL(1), StateL(2)} |-> IF k = StateL(1) THEN JStr(OFF) ELSE JNum(1)]),
      Obj([k \in {StateL(MaxRelays + 1), Name("brightness", 0)} |-> JStr(ON)]),
      Obj([k \in {StateL(1)} |-> JStr(<<"D", "I", "M">>)]) }

\* Command payloads sent to a name no device has.
GhostPayloads == { Obj([k \in {State} |-> JStr(TOGGLE)]) }

Payloads == PlugPayloads \cup StripPayloads

\* One setState(`${adapter}.${friendlyName}.POWER<i>`, newState); i = 0 is POWER.
NativeCmd(friendlyName, i, newState) ==
    [dev |-> friendlyName, power |-> Name("POWER", i), val |-> newState]

\* ResolveState that knows ON only.
ResolveStateNoToggle(stateCmd, last) == stateCmd = ON

\* newState of handleZ2MSetCommand for the upper-cased command stateCmd.
ResolveState(stateCmd, last) ==
    IF stateCmd = TOGGLE THEN ~Truthy(last) ELSE stateCmd = ON

\* The first block of handleZ2MSetCommand: the bare key "state" of a
\* single-relay device.  threw: toUpperCase was called on a value that is no string.
SingleRelayPart(device, obj) ==
    IF State \in DOMAIN obj /\ device.relayCount = 1
    THEN IF obj[State].t # "string"
         THEN [cmds |-> <<>>, threw |-> TRUE]
         ELSE [cmds |-> << NativeCmd(device.friendlyName, 0,
                                     ResolveState(ToUpperCase(obj[State].s),
                                                  device.lastStates[1])) >>,
               threw |-> FALSE]
    ELSE [cmds |-> <<>>, threw |-> FALSE]

\* LoopPowerKey that addresses the first relay of a multi-relay device.
LoopPowerKeyFirst(device, i) == IF device.relayCount = 1 THEN 0 ELSE 1

\* The POWER state relay i is commanded through by the loop.
LoopPowerKey(device, i) == IF device.relayCount = 1 THEN 0 ELSE i

RECURSIVE MultiRelayLoop(_, _, _, _)
\* The loop over i = from..relayCount of handleZ2MSetCommand, after cmds.
MultiRelayLoop(device, obj, from, cmds) ==
    IF from > device.relayCount THEN [cmds |-> cmds, threw |-> FALSE]
    ELSE IF StateL(from) \in DOMAIN obj
         THEN IF obj[StateL(from)].t # "string"
              THEN [cmds |-> cmds, threw |-> TRUE]
              ELSE MultiRelayLoop(device, obj, from + 1,
                      Append(cmds,
                             NativeCmd(device.friendlyName, LoopPowerKey(device, from),
                                       ResolveState(ToUpperCase(obj[StateL(from)].s),
                                                    device.lastStates[from]))))
         ELSE MultiRelayLoop(device, obj, from + 1, cmds)

\* SetCommandEffects that switches the first relay on when the payload is no
\* object.
SetCommandEffectsDefaultOn(device, payload) ==
    IF payload.kind # "object"
    THEN [cmds |-> <<NativeCmd(device.friendlyName, LoopPowerKey(device, 1), TRUE)>>,
          threw |-> FALSE]
    ELSE LET single == SingleRelayPart(device, payload.obj)
         IN  IF single.threw THEN single
             ELSE MultiRelayLoop(device, payload.obj, 1, single.cmds)

\* The try block of handleZ2MSetCommand for a device that was found.
SetCommandEffects(device, payload) ==
    IF payload.kind # "object" THEN [cmds |-> <<>>, threw |-> TRUE]
    ELSE LET single == SingleRelayPart(device, payload.obj)
         IN  IF single.threw THEN single
             ELSE MultiRelayLoop(device, payload.obj, 1, single.cmds)

\* HandleZ2MSetCommand that also stores the commanded values in lastStates.
HandleZ2MSetCommandOptimistic(friendlyName, payload) ==
    /\ pc = "run"
    /\ evt' = Evt("command", friendlyName, 0, Null, payload)
    /\ LET idx == FindByZ2MName(sonoffDevices, friendlyName)
           cmds == IF idx = 0 THEN <<>>
                   ELSE SetCommandEffects(sonoffDevices[idx], payload).cmds
           hits(r) == {k \in 1..Len(cmds) :
                          cmds[k].power = Name("POWER", LoopPowerKey(sonoffDevices[idx], r))}
       IN  /\ nativeCmds' = cmds
           /\ sonoffDevices' =
                 IF idx = 0 THEN sonoffDevices
                 ELSE [sonoffDevices EXCEPT ![idx].lastStates =
                         [r \in 1..Len(@) |->
                            IF hits(r) = {} THEN @[r]
                            ELSE JBool(cmds[CHOOSE k \in hits(r) :
                                                \A j \in hits(r) : j <= k].val)]]
    /\ published' = <<>>
    /\ UNCHANGED <<store, pc, toScan, initialized, lastSnap, lastMarker>>
    /\ UNCHANGED <<tasmotaVars, updaterVars>>
    /\ changed' = (sonoffDevices' # sonoffDevices)
    /\ rep' = RepAfter(evt')

\* handleZ2MSetCommand(friendlyName, payload)
HandleZ2MSetCommand(friendlyName, payload) ==
    /\ pc = "run"
    /\ evt' = Evt("command", friendlyName, 0, Null, payload)
    /\ LET idx == FindByZ2MName(sonoffDevices, friendlyName)
       IN  nativeCmds' = IF idx = 0 THEN <<>>
                         ELSE SetCommandEffects(sonoffDevices[idx], payload).cmds
    /\ published' = <<>>
    /\ UNCHANGED <<store, pc, toScan, sonoffDevices, initialized, lastSnap, lastMarker>>
    /\ UNCHANGED <<tasmotaVars, updaterVars>>
    /\ changed' = (sonoffDevices' # sonoffDevices)
    /\ rep' = RepAfter(evt')

\* The setInterval callback: if (initialized) publishBridgeTopics().  initialize
\* starts the interval right after it sets initialized; the script keeps no
\* handle of it and onStop neither clears it nor resets initialized.
RefreshTick ==
    /\ initialized
    /\ evt' = Evt("refresh", "", 0, Null, NoPayload)
    /\ published' = IF initialized THEN publishBridgeTopics(sonoffDevices) ELSE <<>>
    /\ nativeCmds' = <<>>
    /\ UNCHANGED <<store, pc, toScan, sonoffDevices, initialized, lastSnap, lastMarker>>
    /\ UNCHANGED <<tasmotaVars, updaterVars>>
    /\ changed' = (sonoffDevices' # sonoffDevices)
    /\ rep' = NoRep

\* StopMessages that leaves out the devices that are offline already.
StopMessagesSkipOffline(map) ==
    LET live == SelectSeq(map, LAMBDA d : d.lastAvailable # JBool(FALSE))
    IN  << Msg(<<"bridge", "state">>, [state |-> "offline"]) >>
        \o [k \in 1..Len(live) |->
              Msg(<<live[k].z2mDevice.friendly_name, "availability">>,
                  AvailabilityPayload(FALSE))]

\* The messages of the onStop callback: bridge/state offline, then one offline
\* availability marker per device of the map.
StopMessages(map) ==
    << Msg(<<"bridge", "state">>, [state |-> "offline"]) >>
    \o [k \in 1..Len(map) |->
          Msg(<<map[k].z2mDevice.friendly_name, "availability">>, AvailabilityPayload(FALSE))]

\* onStop: the script is stopped, before initialize() ran or after it.
OnStop ==
    /\ pc \in {"boot", "run"}
    /\ pc' = "stopped"
    /\ evt' = Evt("stop", "", 0, Null, NoPayload)
    /\ published' = StopMessages(sonoffDevices)
    /\ nativeCmds' = <<>>
    /\ UNCHANGED <<store, toScan, sonoffDevices, initialized, lastSnap>>
    /\ lastMarker' = MarkerAfter(lastMarker, published')
    /\ UNCHANGED <<tasmotaVars, updaterVars>>
    /\ changed' = (sonoffDevices' # sonoffDevices)
    /\ rep' = NoRep

\* The events the environment delivers.
PowerEvents ==
    (Folders \X (1..MaxRelayNum) \X EventValues)
    \cup (Folders \X {0} \X {GhostValue})
    \cup {<<Ghost, 1, GhostValue>>}

AliveEvents == (Folders \X EventValues) \cup {<<Ghost, GhostValue>>}

CommandEvents ==
    ({"plug"} \X PlugPayloads) \cup ({"strip"} \X StripPayloads) \cup ({Ghost} \X GhostPayloads)

Next ==
    \/ Initialize
    \/ \E f \in Folders : ProcessSonoffDevice(f)
    \/ FinishInitialize
    \/ \E e \in PowerEvents : HandleSonoffPowerChange(e[1], e[2], e[3])
    \/ \E e \in AliveEvents : HandleSonoffAliveChange(e[1], e[2])
    \/ \E e \in CommandEvents : HandleZ2MSetCommand(e[1], e[2])
    \/ RefreshTick
    \/ OnStop

Spec == Init /\ [][Next]_vars

(***************************************************************************)
(* The Tasmota bridges (part_000): one relay per device, discovered from   *)
(* the discovery config states.  The first script (v1) and the second (v2) *)
(* differ in how a command reaches the device.                             *)
(***************************************************************************)
RECURSIVE Join(_)
\* The characters of s as one string.
Join(s) == IF s = <<>> THEN "" ELSE Head(s) \o Join(Tail(s))

\* macToIeee of the Tasmota bridges: "600194CC5E44" -> "0x0000600194cc5e44"
macToIeeeT(mac) == IeeePrefix \o ToLowerCase(mac)

\* config.rl?.some(r => r === 1)
HasRelay(config) == \E k \in 1..Len(config.rl) : config.rl[k] = 1

\* tasmotaConfig.dn || tasmotaConfig.t || `Tasmota_${mac}`
FriendlyNameT(config) ==
    IF config.dn # "" THEN config.dn
    ELSE IF config.t # "" THEN config.t
    ELSE "Tasmota_" \o Join(config.mac.s)

SwitchExposeT ==
    [ type |-> "switch", endpoint |-> NoEndpoint, name |-> "state",
      property |-> Name("state", 0), access |-> 7,
      value_min |-> 0, value_max |-> 0 ]

\* createZ2MDeviceDefinition of the Tasmota bridges.
createZ2MDeviceDefinitionT(config) ==
    [ ieee_address |-> macToIeeeT(config.mac.s),
      type |-> "Router",
      network_address |-> ParseIntHex(Substring(config.mac.s, 8)),
      friendly_name |-> FriendlyNameT(config),
      exposes |-> IF HasRelay(config) THEN <<SwitchExposeT, LinkqualityExpose>>
                  ELSE <<LinkqualityExpose>>,
      endpoints |-> <<NoEndpoint>>,
      interview_completed |-> TRUE,
      interview_state |-> "SUCCESSFUL" ]

\* A command to the device with topic deviceTopic: setState of
\* cmnd.<topic>.POWER (v1), the message to cmnd/<topic>/POWER (v2).
TCmd(deviceTopic, value) ==
    [dev |-> deviceTopic, power |-> Name("POWER", 0), val |-> value]

\* sendTasmotaCommand that maps every command word to 1.
sendTasmotaCommandOne(deviceTopic, value) ==
    TCmd(deviceTopic, IF value = Null THEN value ELSE JNum(1))

\* sendTasmotaCommand(deviceTopic, 'POWER', value): ON is sent as 1, OFF as 0,
\* every other value as it is.
sendTasmotaCommand(deviceTopic, value) ==
    TCmd(deviceTopic,
         IF value = JStr(ON) THEN JNum(1)
         ELSE IF value = JStr(OFF) THEN JNum(0)
         ELSE value)

\* The query of the initial state that follows a discovery.
QueryCmd(v, deviceTopic) ==
    IF v = "v1" THEN sendTasmotaCommand(deviceTopic, Null)
    ELSE TCmd(deviceTopic, JStr(<<>>))

\* publishDeviceState(mac, state) of the Tasmota bridges.
publishDeviceStateT(map, mac, state) ==
    IF ~MapHas(map, mac) THEN <<>>
    ELSE LET friendlyName == MapGet(map, mac).z2mDevice.friendly_name
         IN  << Msg(<<friendlyName>>,
                    [k \in {Name("linkquality", 0), Name("state", 0)} |->
                        IF k = Name("linkquality", 0) THEN JNum(LinkQuality)
                        ELSE OnOff(state)]),
                Msg(<<friendlyName, "availability">>, AvailabilityPayload(TRUE)) >>

\* A discovery config state: its value is empty, is no JSON, or parses to config.
NoConfig == [mac |-> Null, dn |-> "", t |-> "", rl |-> <<>>]

EmptyVal == [kind |-> "empty", config |-> NoConfig]

UnparsableVal == [kind |-> "unparsable", config |-> NoConfig]

ConfigVal(mac, dn, t, rl) ==
    [kind |-> "config", config |-> [mac |-> mac, dn |-> dn, t |-> t, rl |-> rl]]

TMacA == StripColons(MacA)

TMacB == StripColons(MacB)

\* The discovery states the environment holds: a lamp; the lamp again under
\* another name and topic; a device with two relays and without display name;
\* a payload without MAC; a device without relay; an empty state; a state
\* that is no JSON.
LampVal == ConfigVal(JStr(TMacA), "lamp", "tasmota_lamp", <<1, 0>>)

LampAgainVal == ConfigVal(JStr(TMacA), "lamp2", "tasmota_new", <<0, 1>>)

FanVal == ConfigVal(JStr(TMacB), "", "tasmota_fan", <<1, 1>>)

\* Another device that was given the lamp's display name.
TwinVal == ConfigVal(JStr(TMacB), "lamp", "tasmota_twin", <<1>>)

DiscoveryVals ==
    { LampVal, LampAgainVal, FanVal, TwinVal,
      ConfigVal(Null, "nomac", "tasmota_nomac", <<1>>),
      ConfigVal(JStr(TMacB), "sensor", "tasmota_sensor", <<0, 0>>),
      EmptyVal, UnparsableVal }

\* The discovery states that exist when the script starts.
ExistingDiscoveries == { <<>>, <<LampVal>>, <<FanVal, LampAgainVal, LampVal>> }

\* DiscoveryPublishes that leaves the topology to the periodic refresh.
DiscoveryPublishesNothing(init, newMap) == <<>>

\* if (initialized) publishBridgeTopics(), after the device was added.
DiscoveryPublishes(init, newMap) ==
    IF init THEN publishBridgeTopics(newMap) ELSE <<>>

\* handleTasmotaDiscovery on a state with value val: the map after it, the
\* messages published and the commands sent.
DiscoveryEffects(v, map, val, init) ==
    LET config == val.config
        none == [map |-> map, msgs |-> <<>>, cmds |-> <<>>]
    IN  IF val.kind # "config" THEN none
        ELSE IF ~Truthy(config.mac) THEN none
        ELSE IF ~HasRelay(config) THEN none
        ELSE IF MapHas(map, config.mac.s) THEN none
        ELSE LET device == [ mac |-> config.mac.s,
                             config |-> config,
                             z2mDevice |-> createZ2MDeviceDefinitionT(config),
                             topic |-> config.t,
                             lastState |-> Null ]
                 newMap == MapSet(map, config.mac.s, device)
             IN  [ map |-> newMap,
                   msgs |-> DiscoveryPublishes(init, newMap),
                   cmds |-> <<QueryCmd(v, config.t)>> ]

RECURSIVE scanExistingDevices(_, _, _)
\* scanExistingDevices: handleTasmotaDiscovery on every existing discovery
\* state (initialized is false); the map and the commands after it.
scanExistingDevices(v, vals, acc) ==
    IF vals = <<>> THEN acc
    ELSE LET e == DiscoveryEffects(v, acc.map, Head(vals), FALSE)
         IN  scanExistingDevices(v, Tail(vals),
                [map |-> e.map, msgs |-> <<>>, cmds |-> acc.cmds \o e.cmds])

InitT ==
    /\ store = 1
    /\ pc = "boot"
    /\ toScan = <<>>
    /\ sonoffDevices = <<>>
    /\ initialized = FALSE
    /\ published = <<>>
    /\ nativeCmds = <<>>
    /\ evt = Evt("load", "", 0, Null, NoPayload)
    /\ lastSnap = [f \in Folders |-> <<>>]
    /\ lastMarker = [f \in Folders |-> <<>>]
    /\ changed = FALSE
    /\ rep = NoRep
    /\ variant \in {"v1", "v2"}
    /\ tasmotaDevices = <<>>
    /\ updater = NoUpdater

sonoffVars == <<store, toScan, sonoffDevices, lastSnap, lastMarker, rep>>

\* initialize() of the Tasmota bridges: subscriptions, scan, bridge topics,
\* initialized = true.
InitializeT ==
    /\ pc = "boot"
    /\ pc' = "run"
    /\ \E vals \in ExistingDiscoveries :
          LET scan == scanExistingDevices(variant, vals,
                         [map |-> tasmotaDevices, msgs |-> <<>>, cmds |-> <<>>])
          IN  /\ tasmotaDevices' = scan.map
              /\ nativeCmds' = scan.cmds
              /\ published' = publishBridgeTopics(scan.map)
              /\ evt' = Evt("tinitialize", "", Len(vals), Null, NoPayload)
    /\ initialized' = TRUE
    /\ changed' = (tasmotaDevices' # tasmotaDevices)
    /\ UNCHANGED <<variant, sonoffVars, updaterVars>>

\* handleTasmotaDiscovery(stateId), called by the discovery subscription.
HandleTasmotaDiscovery(val) ==
    /\ pc = "run"
    /\ LET e == DiscoveryEffects(variant, tasmotaDevices, val, initialized)
       IN  /\ tasmotaDevices' = e.map
           /\ published' = e.msgs
           /\ nativeCmds' = e.cmds
    /\ evt' = Evt("tdiscover", val.config.t, 0, val.config.mac,
                  [kind |-> val.kind, obj |-> <<>>])
    /\ changed' = (tasmotaDevices' # tasmotaDevices)
    /\ UNCHANGED <<pc, initialized, variant, sonoffVars, updaterVars>>

\* The loop of the status subscription: the first device whose topic is topic.
FindByTopic(map, topic) ==
    IF \E k \in 1..Len(map) : map[k].topic = topic
    THEN CHOOSE k \in 1..Len(map) :
            /\ map[k].topic = topic
            /\ \A j \in 1..(k - 1) : map[j].topic # topic
    ELSE 0

\* The guard of handleTasmotaStatus's update: device.lastState !== newState
StatusChangeApplies(device, newState) == device.lastState # newState

\* The status subscription and handleTasmotaStatus(mac, state).
HandleTasmotaStatus(topic, state) ==
    /\ pc = "run"
    /\ evt' = Evt("tstatus", topic, 1, state, NoPayload)
    /\ nativeCmds' = <<>>
    /\ LET idx == FindByTopic(tasmotaDevices, topic)
           newState == JBool(state = JStr(ON))
       IN  IF idx # 0 /\ StatusChangeApplies(tasmotaDevices[idx], newState)
           THEN LET map == [tasmotaDevices EXCEPT ![idx].lastState = newState]
                IN  /\ tasmotaDevices' = map
                    /\ published' = publishDeviceStateT(map, map[idx].mac, newState)
           ELSE /\ tasmotaDevices' = tasmotaDevices
                /\ published' = <<>>
    /\ changed' = (tasmotaDevices' # tasmotaDevices)
    /\ UNCHANGED <<pc, initialized, variant, sonoffVars, updaterVars>>

\* String(value)
JsString(v) ==
    IF v.t = "string" THEN v.s
    ELSE IF v.t = "boolean" THEN (IF v.b THEN <<"t", "r", "u", "e">>
                                  ELSE <<"f", "a", "l", "s", "e">>)
    ELSE IF v.t = "number" THEN (IF v.n = 1 THEN <<"1">> ELSE <<"0">>)
    ELSE <<"n", "u", "l", "l">>

\* The command words the first script sends on.
CommandWords == {ON, OFF, TOGGLE}

\* The try block of handleZ2MSetCommand of the Tasmota bridges for the device
\* that was found: v1 sends String(cmd.state).toUpperCase() if it is a command
\* word, v2 sends cmd.state.toUpperCase(), whatever it is.
SetCommandEffectsT(v, device, payload) ==
    IF payload.kind # "object" THEN <<>>
    ELSE IF State \notin DOMAIN payload.obj THEN <<>>
    ELSE IF v = "v1"
         THEN LET tasmotaValue == ToUpperCase(JsString(payload.obj[State]))
              IN  IF tasmotaValue \in CommandWords
                  THEN <<sendTasmotaCommand(device.topic, JStr(tasmotaValue))>>
                  ELSE <<>>
         ELSE IF payload.obj[State].t # "string" THEN <<>>
              ELSE <<TCmd(device.topic, JStr(ToUpperCase(payload.obj[State].s)))>>

\* handleZ2MSetCommand(friendlyName, payload) of the Tasmota bridges.
HandleZ2MSetCommandT(friendlyName, payload) ==
    /\ pc = "run"
    /\ evt' = Evt("tcommand", friendlyName, 0, Null, payload)
    /\ LET idx == FindByZ2MName(tasmotaDevices, friendlyName)
       IN  nativeCmds' = IF idx = 0 THEN <<>>
                         ELSE SetCommandEffectsT(variant, tasmotaDevices[idx], payload)
    /\ published' = <<>>
    /\ UNCHANGED <<pc, initialized, tasmotaDevices, variant, sonoffVars, updaterVars>>
    /\ changed' = (tasmotaDevices' # tasmotaDevices)

\* The setInterval callback of the Tasmota bridges, started by initialize and
\* never cleared by the script.
RefreshTickT ==
    /\ initialized
    /\ evt' = Evt("trefresh", "", 0, Null, NoPayload)
    /\ published' = IF initialized THEN publishBridgeTopics(tasmotaDevices) ELSE <<>>
    /\ nativeCmds' = <<>>
    /\ UNCHANGED <<pc, initialized, tasmotaDevices, variant, sonoffVars, updaterVars>>
    /\ changed' = (tasmotaDevices' # tasmotaDevices)

\* onStop of the Tasmota bridges.
OnStopT ==
    /\ pc \in {"boot", "run"}
    /\ pc' = "stopped"
    /\ evt' = Evt("tstop", "", 0, Null, NoPayload)
    /\ published' = StopMessages(tasmotaDevices)
    /\ nativeCmds' = <<>>
    /\ UNCHANGED <<initialized, tasmotaDevices, variant, sonoffVars, updaterVars>>
    /\ changed' = (tasmotaDevices' # tasmotaDevices)

StatusTopics == {"tasmota_lamp", "tasmota_new", "tasmota_fan", "tasmota_none"}

StatusValues == {JStr(ON), JStr(OFF), JStr(Lower(ON))}

\* Command payloads sent to the Tasmota bridges.
TPayloads ==
    { Unparsable,
      Primitive,
      Obj([k \in {State} |-> JStr(TOGGLE)]),
      Obj([k \in {State} |-> JStr(Lower(ON))]),
      Obj([k \in {State} |-> JStr(OFF)]),
      Obj([k \in {State} |-> JBool(TRUE)]),
      Obj([k \in {State} |-> JStr(<<"D", "I", "M">>)]),
      Obj([k \in {Name("brightness", 0)} |-> JStr(ON)]) }

TCommandNames == {"lamp", "lamp2", "tasmota_fan", Ghost}

NextT ==
    \/ InitializeT
    \/ \E val \in DiscoveryVals : HandleTasmotaDiscovery(val)
    \/ \E topic \in StatusTopics, state \in StatusValues : HandleTasmotaStatus(topic, state)
    \/ \E name \in TCommandNames, payload \in TPayloads : HandleZ2MSetCommandT(name, payload)
    \/ RefreshTickT
    \/ OnStopT

SpecT == InitT /\ [][NextT]_vars

(***************************************************************************)
(* The Sonoff Data Updater (part_000, the third script): it runs once,     *)
(* visits every device folder of the Sonoff adapter and asks the device    *)
(* over HTTP for the datapoints the bridge needs.  processDevice is an     *)
(* async function: one action per stretch between two awaits; while it     *)
(* waits, the adapter goes on updating the state store.                    *)
(***************************************************************************)
IpA == <<"1", "0", ".", "0", ".", "0", ".", "5">>

IpB == <<"1", "0", ".", "0", ".", "0", ".", "6">>

Status5 == "status 5"

Template == "Template"

\* The datapoints of one device folder: whether INFO.Info2_IPAddress exists
\* and its value, the value of alive, of STATUS.StatusNET_Mac (null when the
\* state does not exist) and the number of GPIO_* states.
Datapoints(hasIp, ip, alive, mac, gpios) ==
    [hasIp |-> hasIp, ip |-> ip, alive |-> alive, mac |-> mac, gpios |-> gpios]

PlugDatapoints ==
    { Datapoints(TRUE, ip, alive, mac, gpios) :
        ip \in {Null, JStr(IpA)}, alive \in StoreBools,
        mac \in {Null, JStr(MacA)}, gpios \in {0, 2} }
    \cup { Datapoints(FALSE, Null, JBool(TRUE), Null, 0) }

StripDatapoints ==
    { Datapoints(TRUE, JStr(IpB), alive, mac, gpios) :
        alive \in {JBool(TRUE), JBool(FALSE)}, mac \in {Null, JStr(MacB)}, gpios \in {0, 2} }

\* httpGet(`http://${ip}/cm?cmnd=${encodeURIComponent(command)}`): one request
\* to the device of folder dev.
HttpGet(dev, ip, command) == [dev |-> dev, ip |-> ip, command |-> command]

\* What the last step of the updater was and the commands it sent.
Last(kind, dev, commands) == [kind |-> kind, dev |-> dev, sent |-> commands]

\* IsOnline that takes every device for online that is not known to be offline.
IsOnlineUnlessFalse(alive) == alive # JBool(FALSE)

\* The test `if (!alive)` of processDevice, negated.
IsOnline(alive) == Truthy(alive)

\* processDevice returns: the result is counted, and after wait(200) the loop
\* of scanAndUpdateDevices goes on with the next folder.
Returned(u, friendlyName, reason, kind, commands) ==
    [u EXCEPT !.results[friendlyName] = reason,
              !.pc = "next",
              !.queue = Tail(@),
              !.last = Last(kind, friendlyName, commands)]

\* processDevice from the GPIO check on: Template is requested when the folder
\* has no GPIO_* state.
GpioCheck(u, friendlyName, kind, commands) ==
    IF u.store[friendlyName].gpios = 0
    THEN [u EXCEPT !.sent = Append(@, HttpGet(friendlyName, u.ip, Template)),
                   !.pc = "gpioRequested",
                   !.last = Last(kind, friendlyName, Append(commands, Template))]
    ELSE Returned(u, friendlyName, "ok", kind, commands)

\* processDevice up to its first await.
ProcessDeviceEffects(u, friendlyName) ==
    LET alive == u.store[friendlyName].alive
        ip == u.store[friendlyName].ip
        mac == u.store[friendlyName].mac
        read == [u EXCEPT !.cur = friendlyName, !.alive = alive, !.ip = ip]
    IN  IF ~IsOnline(alive) THEN Returned(read, friendlyName, "offline", "process", <<>>)
        ELSE IF ~Truthy(ip) THEN Returned(read, friendlyName, "no_ip", "process", <<>>)
        ELSE IF ~Truthy(mac)
             THEN [read EXCEPT !.sent = Append(@, HttpGet(friendlyName, ip, Status5)),
                               !.pc = "macRequested",
                               !.last = Last("process", friendlyName, <<Status5>>)]
             ELSE GpioCheck(read, friendlyName, "process", <<>>)

InitU ==
    /\ store = 1
    /\ pc = "boot"
    /\ toScan = <<>>
    /\ sonoffDevices = <<>>
    /\ initialized = FALSE
    /\ published = <<>>
    /\ nativeCmds = <<>>
    /\ evt = Evt("load", "", 0, Null, NoPayload)
    /\ lastSnap = [f \in Folders |-> <<>>]
    /\ lastMarker = [f \in Folders |-> <<>>]
    /\ changed = FALSE
    /\ rep = NoRep
    /\ variant = "updater"
    /\ tasmotaDevices = <<>>
    /\ \E plug \in PlugDatapoints, strip \in StripDatapoints :
          updater = [ pc |-> "idle",
                      queue |-> <<>>,
                      cur |-> "",
                      alive |-> Null,
                      ip |-> Null,
                      store |-> [f \in Folders |-> IF f = "plug" THEN plug ELSE strip],
                      sent |-> <<>>,
                      results |-> [f \in Folders |-> "none"],
                      last |-> Last("load", "", <<>>) ]

bridgeVars == <<store, pc, toScan, sonoffDevices, initialized, published, nativeCmds, evt,
                lastSnap, lastMarker, changed, rep, variant, tasmotaDevices>>

\* scanAndUpdateDevices up to its first processDevice call: the folders that
\* have an INFO.Info2_IPAddress state, in the order the selector gives them.
ScanAndUpdateDevices ==
    /\ updater.pc = "idle"
    /\ updater' = [updater EXCEPT
                      !.pc = "next",
                      !.queue = SelectSeq(FolderOrder, LAMBDA f : updater.store[f].hasIp),
                      !.last = Last("scan", "", <<>>)]
    /\ UNCHANGED bridgeVars

\* processDevice(friendlyName) up to its first await or its return.
ProcessDevice(friendlyName) ==
    /\ updater.pc = "next"
    /\ updater.queue # <<>>
    /\ friendlyName = Head(updater.queue)
    /\ updater' = ProcessDeviceEffects(updater, friendlyName)
    /\ UNCHANGED bridgeVars

\* processDevice after `await sendTasmotaCommand(ip, 'status 5')` and, when the
\* request succeeded, `await wait(...)`: the MAC is read again (and logged),
\* then the GPIO check follows.
AfterStatusRequest(success) ==
    /\ updater.pc = "macRequested"
    /\ updater' = GpioCheck(updater, updater.cur,
                            IF success THEN "afterStatus" ELSE "afterStatusFailed", <<>>)
    /\ UNCHANGED bridgeVars

\* processDevice after `await sendTasmotaCommand(ip, 'Template')` and the wait.
AfterTemplateRequest(success) ==
    /\ updater.pc = "gpioRequested"
    /\ updater' = Returned(updater, updater.cur, "ok",
                           IF success THEN "afterTemplate" ELSE "afterTemplateFailed", <<>>)
    /\ UNCHANGED bridgeVars

\* The loop of scanAndUpdateDevices is over: the summary is logged.
UpdateCompleted ==
    /\ updater.pc = "next"
    /\ updater.queue = <<>>
    /\ updater' = [updater EXCEPT !.pc = "done", !.last = Last("completed", "", <<>>)]
    /\ UNCHANGED bridgeVars

\* The Sonoff adapter, while the updater waits: a device goes online or
\* offline, or the datapoints a device was asked for are created.
AdapterUpdate(friendlyName, what) ==
    /\ updater.pc \in {"next", "macRequested", "gpioRequested"}
    /\ LET dp == updater.store[friendlyName]
           asked(command) == \E k \in 1..Len(updater.sent) :
                                /\ updater.sent[k].dev = friendlyName
                                /\ updater.sent[k].command = command
           new == CASE what = "online" -> [dp EXCEPT !.alive = JBool(TRUE)]
                    [] what = "offline" -> [dp EXCEPT !.alive = JBool(FALSE)]
                    [] what = "mac" /\ asked(Status5) ->
                          [dp EXCEPT !.mac = JStr(IF friendlyName = "plug" THEN MacA ELSE MacB)]
                    [] what = "gpio" /\ asked(Template) -> [dp EXCEPT !.gpios = 2]
                    [] OTHER -> dp
       IN  /\ new # dp
           /\ updater' = [updater EXCEPT !.store[friendlyName] = new,
                                         !.last = Last("adapter", friendlyName, <<>>)]
    /\ UNCHANGED bridgeVars

AdapterUpdates == {"online", "offline", "mac", "gpio"}

NextU ==
    \/ ScanAndUpdateDevices
    \/ \E f \in Folders : ProcessDevice(f)
    \/ \E success \in BOOLEAN : AfterStatusRequest(success)
    \/ \E success \in BOOLEAN : AfterTemplateRequest(success)
    \/ UpdateCompleted
    \/ \E f \in Folders, what \in AdapterUpdates : AdapterUpdate(f, what)

SpecU == InitU /\ [][NextU]_vars

(***************************************************************************)
(* Properties of the Sonoff bridge (Spec), of the Tasmota bridges (SpecT)   *)
(* and of the Data Updater (SpecU).                                        *)
(***************************************************************************)

\* C1, as stated: when a state event for a registered device repeats the
\* event before it (same endpoint, same boolean), the two events together
\* have published exactly one state snapshot, and the repeat none.
C1_ExactlyOnePublish ==
    ( /\ evt.kind = "power"
      /\ rep.same
      /\ evt.val.t = "boolean"
      /\ FindByFriendlyName(sonoffDevices, evt.name) # 0 )
    => /\ rep.snaps + SnapCount(published) = 1
       /\ SnapCount(published) = 0

\* C1: a state event that repeats the event before it (same device, same
\* relay, same value) publishes nothing and changes nothing; the two events
\* together have published one state snapshot if the first one changed the
\* registry, and none if it did not.
C1_RepeatIsSilent ==
    ( /\ evt.kind = "power"
      /\ rep.same
      /\ FindByFriendlyName(sonoffDevices, evt.name) # 0 )
    => /\ published = <<>>
       /\ ~changed
       /\ rep.snaps = (IF rep.changed THEN 1 ELSE 0)

\* A repeated state event whose first occurrence changed the device and was
\* published.
C1_RepeatAfterChange ==
    /\ evt.kind = "power"
    /\ rep.same
    /\ evt.val.t = "boolean"
    /\ FindByFriendlyName(sonoffDevices, evt.name) # 0
    /\ rep.changed
    /\ rep.snaps = 1
    /\ published = <<>>

\* C2, as stated: no state snapshot is published on a device's state topic
\* that is identical to the snapshot published there before it.
C2_NoIdenticalSnapshots ==
    [][ \A k \in 1..Len(published') :
            IsStateMsg(published'[k])
            => lastSnap[published'[k].topic[2]] # <<published'[k].payload>> ]_vars

\* C2: a state snapshot identical to the one published before it on the same
\* topic is published only by an availability change, or by a state event
\* that sets an endpoint whose value was unknown to OFF; the snapshot of every
\* other state event differs from the one before it.
C2_IdenticalOnlyWhenNothingShown ==
    [][ \A k \in 1..Len(published') :
            ( /\ IsStateMsg(published'[k])
              /\ lastSnap[published'[k].topic[2]] = <<published'[k].payload>> )
            => \/ evt'.kind = "alive"
               \/ /\ evt'.kind = "power"
                  /\ ToNewState(evt'.val) = JBool(FALSE)
                  /\ LET idx == FindByFriendlyName(sonoffDevices, evt'.name)
                     IN  sonoffDevices[idx].lastStates[evt'.relay] = Null ]_vars

\* A state event for the first relay of a two-relay device has published a
\* snapshot, after a state event for the second relay had published one.
C2_SecondSnapshot ==
    /\ evt.kind = "power"
    /\ evt.name = "strip"
    /\ evt.relay = 1
    /\ SnapCount(published) = 1
    /\ LET idx == FindByFriendlyName(sonoffDevices, "strip")
       IN  /\ idx # 0
           /\ sonoffDevices[idx].relayCount = 2
           /\ sonoffDevices[idx].lastStates[2] = JBool(TRUE)

\* C3: every state snapshot published holds exactly one state key per endpoint
\* of the device, with ON if the endpoint's last-known value is true and OFF
\* otherwise (false or unknown), and linkquality 255.
C3_SnapshotIsComplete ==
    \A k \in 1..Len(published) :
        IsStateMsg(published[k])
        => LET idx == FindByZ2MName(sonoffDevices, published[k].topic[2])
               dev == sonoffDevices[idx]
               p == published[k].payload
               key(i) == IF dev.relayCount = 1 THEN Name("state", 0)
                         ELSE Name("state_l", i)
           IN  /\ idx # 0
               /\ DOMAIN p = {key(i) : i \in 1..dev.relayCount}
                                \cup {Name("linkquality", 0)}
               /\ \A i \in 1..dev.relayCount :
                     p[key(i)] = IF dev.lastStates[i] = JBool(TRUE)
                                 THEN JStr(<<"O", "N">>)
                                 ELSE JStr(<<"O", "F", "F">>)
               /\ p[Name("linkquality", 0)] = JNum(255)

\* A state event for the second relay of a two-relay device has published the
\* snapshot {state_l1: ON, state_l2: OFF, linkquality: 255}.
C3_TwoRelaySnapshot ==
    /\ evt.kind = "power"
    /\ evt.relay = 2
    /\ Len(published) = 2
    /\ DOMAIN published[1].payload
          = {Name("state_l", 1), Name("state_l", 2), Name("linkquality", 0)}
    /\ published[1].payload[Name("state_l", 1)] = JStr(ON)
    /\ published[1].payload[Name("state_l", 2)] = JStr(OFF)

\* C4, as stated: a discovery for a MAC that is registered already leaves the
\* registry as it is.
C4_RediscoveryIsNoOp ==
    [][ ( /\ evt'.kind = "discover"
          /\ Truthy(evt'.val)
          /\ MapHas(sonoffDevices, evt'.val.s) )
        => sonoffDevices' = sonoffDevices ]_vars

\* C5: every registered device has between 1 and 28 relays; a discovery that
\* derives 0 relays or more than 28 registers nothing, one that derives 1 to
\* 28 relays registers the device with that many.
C5_RelayCountInRange ==
    /\ \A k \in 1..Len(sonoffDevices) :
          sonoffDevices[k].relayCount >= 1 /\ sonoffDevices[k].relayCount <= 28
    /\ (evt.kind = "discover" /\ Truthy(evt.val))
       => LET idx == FindByFriendlyName(sonoffDevices, evt.name)
          IN  IF evt.relay >= 1 /\ evt.relay <= 28
              THEN idx # 0 /\ sonoffDevices[idx].relayCount = evt.relay
              ELSE idx = 0 /\ ~changed

\* A device with 28 relays is registered and the discovery of a device with 29
\* relays has just been rejected.
C5_BoundaryCounts ==
    /\ evt.kind = "discover"
    /\ evt.relay = 29
    /\ ~changed
    /\ Len(sonoffDevices) = 1
    /\ sonoffDevices[1].relayCount = 28

\* C6: the lastStates of every registered device has exactly relayCount
\* entries.
C6_LastStatesLength ==
    \A k \in 1..Len(sonoffDevices) :
        /\ DOMAIN sonoffDevices[k].lastStates = 1..sonoffDevices[k].relayCount
        /\ Len(sonoffDevices[k].lastStates) = sonoffDevices[k].relayCount

\* A state event has just changed the second entry of a two-relay device's
\* lastStates.
C6_AfterStateChange ==
    /\ evt.kind = "power"
    /\ evt.relay = 2
    /\ changed
    /\ LET idx == FindByFriendlyName(sonoffDevices, evt.name)
       IN  /\ idx # 0
           /\ sonoffDevices[idx].relayCount = 2
           /\ sonoffDevices[idx].lastStates[2] = ToNewState(evt.val)

\* C7: the description and the snapshots of a device with one relay use the
\* state key "state"; those of a device with N > 1 relays use exactly the keys
\* state_l1..state_lN; the description's endpoint identifiers are l1..lN.
C7_EndpointNaming ==
    /\ \A k \in 1..Len(sonoffDevices) :
          LET N == sonoffDevices[k].relayCount
              z == sonoffDevices[k].z2mDevice
          IN  /\ Len(z.exposes) = N + 1
              /\ \A i \in 1..N :
                    /\ z.exposes[i].type = "switch"
                    /\ z.exposes[i].property = (IF N = 1 THEN Name("state", 0)
                                                ELSE Name("state_l", i))
                    /\ z.exposes[i].endpoint = Name("l", i)
              /\ z.exposes[N + 1].property = Name("linkquality", 0)
              /\ Len(z.endpoints) = N
              /\ \A i \in 1..N : z.endpoints[i] = Name("l", i)
    /\ \A k \in 1..Len(published) :
          IsStateMsg(published[k])
          => LET idx == FindByZ2MName(sonoffDevices, published[k].topic[2])
                 N == sonoffDevices[idx].relayCount
             IN  /\ idx # 0
                 /\ DOMAIN published[k].payload \ {Name("linkquality", 0)}
                       = IF N = 1 THEN {Name("state", 0)}
                         ELSE {Name("state_l", i) : i \in 1..N}

\* A single-relay and a two-relay device are registered and a snapshot of the
\* single-relay device has just been published.
C7_BothShapes ==
    /\ Len(sonoffDevices) = 2
    /\ sonoffDevices[1].relayCount = 1
    /\ sonoffDevices[2].relayCount = 2
    /\ evt.kind = "power"
    /\ evt.name = sonoffDevices[1].friendlyName
    /\ SnapCount(published) = 1

C10_OneCommandPerKey ==
    (evt.kind = "command" /\ evt.payload.kind = "object"
        /\ FindByZ2MName(sonoffDevices, evt.name) # 0)
    => LET dev == sonoffDevices[FindByZ2MName(sonoffDevices, evt.name)]
           obj == evt.payload.obj
       IN  dev.relayCount > 1
           => \A i \in 1..dev.relayCount :
                 Cardinality({c \in 1..Len(nativeCmds) :
                                 nativeCmds[c].power = Name("POWER", i)})
                    = IF Name("state_l", i) \in DOMAIN obj THEN 1 ELSE 0

\* C10: a command to a device with N > 1 relays emits exactly one native
\* command for relay i for each key state_li of the payload such that the
\* values of the keys state_l1..state_li present are all strings, none for a
\* key at or after one whose value is no string, none for a relay whose key is
\* absent, and no other native command.
C10_OneCommandPerStringKey ==
    (evt.kind = "command" /\ evt.payload.kind = "object"
        /\ FindByZ2MName(sonoffDevices, evt.name) # 0)
    => LET dev == sonoffDevices[FindByZ2MName(sonoffDevices, evt.name)]
           obj == evt.payload.obj
           reached(i) == \A j \in 1..i : Name("state_l", j) \in DOMAIN obj
                                          => obj[Name("state_l", j)].t = "string"
       IN  dev.relayCount > 1
           => /\ \A i \in 1..dev.relayCount :
                    Cardinality({c \in 1..Len(nativeCmds) :
                                    nativeCmds[c].power = Name("POWER", i)})
                       = IF Name("state_l", i) \in DOMAIN obj /\ reached(i)
                         THEN 1 ELSE 0
              /\ \A c \in 1..Len(nativeCmds) :
                    /\ nativeCmds[c].dev = dev.friendlyName
                    /\ nativeCmds[c].power.base = "POWER"
                    /\ nativeCmds[c].power.i \in 1..dev.relayCount

\* {"state_l1": "ON", "state_l2": "toggle"} to a two-relay device has emitted
\* two native commands, the first for relay 1 and the second for relay 2.
C10_TwoKeys ==
    /\ evt.kind = "command"
    /\ DOMAIN evt.payload.obj = {Name("state_l", 1), Name("state_l", 2)}
    /\ evt.payload.obj[Name("state_l", 1)] = JStr(ON)
    /\ Len(nativeCmds) = 2
    /\ nativeCmds[1].power = Name("POWER", 1)
    /\ nativeCmds[2].power = Name("POWER", 2)

\* C11, as stated: handling one command emits at most one native command per
\* endpoint, i.e. per POWER state of the device.
C11_OneCommandPerEndpoint ==
    evt.kind = "command"
    => \A c, d \in 1..Len(nativeCmds) :
          nativeCmds[c].power = nativeCmds[d].power => c = d

\* C12, as stated: a command whose payload is an object without any state key
\* of the device ("state" for a device with one relay, state_l1..state_lN for
\* a device with N > 1 relays) emits no native command and leaves the
\* registry unchanged.
C12_UnknownKeysIgnored ==
    (evt.kind = "command" /\ evt.payload.kind = "object"
        /\ FindByZ2MName(sonoffDevices, evt.name) # 0)
    => LET N == sonoffDevices[FindByZ2MName(sonoffDevices, evt.name)].relayCount
           recognized == IF N = 1 THEN {Name("state", 0)}
                         ELSE {Name("state_l", i) : i \in 1..N}
       IN  DOMAIN evt.payload.obj \cap recognized = {}
           => nativeCmds = <<>> /\ ~changed

\* C13: a command for a display name no registered device has emits no native
\* command, publishes nothing and leaves the registry unchanged.
C13_UnknownDeviceCommandDropped ==
    ( /\ evt.kind = "command"
      /\ \A k \in 1..Len(sonoffDevices) :
            sonoffDevices[k].z2mDevice.friendly_name # evt.name )
    => nativeCmds = <<>> /\ published = <<>> /\ ~changed

\* A command for a name no device has was handled while a device is
\* registered.
C13_GhostCommand ==
    /\ evt.kind = "command"
    /\ evt.name = Ghost
    /\ evt.payload.kind = "object"
    /\ Len(sonoffDevices) >= 1
    /\ nativeCmds = <<>>

\* C14: a command whose payload is no JSON, or is JSON but no object, emits no
\* native command, publishes nothing and leaves the registry unchanged; the
\* script goes on running.
C14_UnparsableCommandDropped ==
    (evt.kind = "command" /\ evt.payload.kind # "object")
    => /\ nativeCmds = <<>>
       /\ published = <<>>
       /\ ~changed
       /\ pc = "run"
       /\ initialized

\* A command with a payload that is no JSON was handled for a registered
\* device, after a state event had changed that device.
C14_UnparsableForKnownDevice ==
    /\ evt.kind = "command"
    /\ evt.payload.kind = "unparsable"
    /\ \E k \in 1..Len(sonoffDevices) :
          /\ sonoffDevices[k].z2mDevice.friendly_name = evt.name
          /\ lastSnap[evt.name] # <<>>
    /\ nativeCmds = <<>>

\* C15: a state event or an availability event for a name no registered device
\* has publishes nothing and leaves the registry unchanged.
C15_UnknownDeviceEventIgnored ==
    ( /\ evt.kind \in {"power", "alive"}
      /\ \A k \in 1..Len(sonoffDevices) : sonoffDevices[k].friendlyName # evt.name )
    => published = <<>> /\ nativeCmds = <<>> /\ ~changed

\* A state event for a name no device has was handled while a device whose
\* first relay is not ON is registered.
C15_GhostEvent ==
    /\ evt.kind = "power"
    /\ evt.name = Ghost
    /\ Len(sonoffDevices) >= 1
    /\ sonoffDevices[1].lastStates[1] # JBool(TRUE)
    /\ published = <<>>

\* C16: an availability event that changes a registered device's lastAvailable
\* publishes the device's full state snapshot and then, on the availability
\* sub-topic, online if the new value is true and offline if it is false; an
\* availability event that does not change lastAvailable publishes nothing.
C16_AvailabilityPublish ==
    (evt.kind = "alive" /\ FindByFriendlyName(sonoffDevices, evt.name) # 0)
    => LET dev == sonoffDevices[FindByFriendlyName(sonoffDevices, evt.name)]
           key(i) == IF dev.relayCount = 1 THEN Name("state", 0)
                     ELSE Name("state_l", i)
       IN  IF changed
           THEN /\ dev.lastAvailable
                      = JBool(evt.val \in {JBool(TRUE), JNum(1),
                                           JStr(<<"t", "r", "u", "e">>)})
                /\ Len(published) = 2
                /\ published[1].topic = <<"zigbee2mqtt", evt.name>>
                /\ \A i \in 1..dev.relayCount :
                      published[1].payload[key(i)]
                         = IF dev.lastStates[i] = JBool(TRUE) THEN JStr(ON)
                           ELSE JStr(OFF)
                /\ published[2].topic = <<"zigbee2mqtt", evt.name, "availability">>
                /\ published[2].payload
                      = [state |-> IF dev.lastAvailable = JBool(TRUE) THEN "online"
                                   ELSE "offline"]
           ELSE published = <<>>

\* An availability event has taken a device offline and republished its
\* state snapshot.
C16_WentOffline ==
    /\ evt.kind = "alive"
    /\ changed
    /\ Len(published) = 2
    /\ IsStateMsg(published[1])
    /\ published[2].payload = [state |-> "offline"]

\* C17: onStop with k registered devices publishes exactly one offline marker
\* on bridge/state and then exactly one offline marker on the availability
\* sub-topic of each registered device, k in total, whatever the devices'
\* lastAvailable, and leaves the registry unchanged.
C17_ShutdownSweep ==
    evt.kind = "stop"
    => /\ Len(published) = Len(sonoffDevices) + 1
       /\ published[1].topic = <<"zigbee2mqtt", "bridge", "state">>
       /\ published[1].payload = [state |-> "offline"]
       /\ \A k \in 1..Len(sonoffDevices) :
             /\ published[k + 1].topic
                   = <<"zigbee2mqtt", sonoffDevices[k].friendlyName, "availability">>
             /\ published[k + 1].payload = [state |-> "offline"]
       /\ ~changed

\* onStop has run with two registered devices, the first offline and the
\* second online.
C17_TwoDevicesStopped ==
    /\ evt.kind = "stop"
    /\ Len(sonoffDevices) = 2
    /\ sonoffDevices[1].lastAvailable = JBool(FALSE)
    /\ sonoffDevices[2].lastAvailable = JBool(TRUE)
    /\ Len(published) = 3

\* C18, as stated: once onStop has run, no handler publishes the online marker
\* on bridge/state.
C18_NoTopologyAfterStop ==
    pc = "stopped"
    => \A k \in 1..Len(published) :
          published[k].topic = <<"zigbee2mqtt", "bridge", "state">>
          => published[k].payload = [state |-> "offline"]

\* C19: every message on bridge/devices lists the coordinator first and then
\* the description of every device of the registry, in the registry's order,
\* each once.
C19_DeviceList ==
    \A k \in 1..Len(published) :
        published[k].topic = <<"zigbee2mqtt", "bridge", "devices">>
        => LET list == published[k].payload
           IN  /\ Len(list) = Len(sonoffDevices) + 1
               /\ list[1].type = "Coordinator"
               /\ list[1].friendly_name = "Coordinator"
               /\ \A j \in 1..Len(sonoffDevices) :
                     list[j + 1] = sonoffDevices[j].z2mDevice
               /\ \A i, j \in 1..Len(list) :
                     list[i].ieee_address = list[j].ieee_address => i = j

\* The periodic refresh has published the list of two devices.
C19_RefreshOfTwo ==
    /\ evt.kind = "refresh"
    /\ Len(sonoffDevices) = 2
    /\ Len(published) = 5
    /\ Len(published[2].payload) = 3

\* C20: the handler that registers a new device of the Tasmota bridges (a
\* discovery event, or initialize with its scan) publishes bridge/devices with
\* the description of every registered device, the new one included, before
\* it returns.
C20_TopologyAfterRegistration ==
    (evt.kind \in {"tdiscover", "tinitialize"} /\ changed)
    => \E k \in 1..Len(published) :
          /\ published[k].topic = <<"zigbee2mqtt", "bridge", "devices">>
          /\ \A d \in 1..Len(tasmotaDevices) :
                \E j \in 1..Len(published[k].payload) :
                    published[k].payload[j] = tasmotaDevices[d].z2mDevice

\* A discovery event after the start has registered a second device.
C20_DiscoveredAtRuntime ==
    /\ evt.kind = "tdiscover"
    /\ changed
    /\ Len(tasmotaDevices) = 2
    /\ published # <<>>

\* C21: a handler that publishes any message of the topology (bridge/info,
\* bridge/devices, bridge/groups, bridge/extensions, or the online marker on
\* bridge/state) publishes exactly five messages and nothing else: bridge/info,
\* bridge/devices, bridge/groups with the empty list, bridge/extensions with
\* the empty list and bridge/state online, in this order; it sends no native
\* command and leaves the registry as it is.
C21_TopologyIsFiveMessages ==
    ( \E k \in 1..Len(published) :
          /\ Len(published[k].topic) = 3
          /\ published[k].topic[2] = "bridge"
          /\ (published[k].topic[3] = "state"
                 => published[k].payload = [state |-> "online"]) )
    => /\ Len(published) = 5
       /\ published[1].topic = <<"zigbee2mqtt", "bridge", "info">>
       /\ published[2].topic = <<"zigbee2mqtt", "bridge", "devices">>
       /\ published[3].topic = <<"zigbee2mqtt", "bridge", "groups">>
       /\ published[3].payload = <<>>
       /\ published[4].topic = <<"zigbee2mqtt", "bridge", "extensions">>
       /\ published[4].payload = <<>>
       /\ published[5].topic = <<"zigbee2mqtt", "bridge", "state">>
       /\ published[5].payload = [state |-> "online"]
       /\ nativeCmds = <<>>
       /\ ~changed

\* The periodic refresh has published the topology after a state event had
\* published a snapshot of the single-relay device.
C21_RefreshBetweenEvents ==
    /\ evt.kind = "refresh"
    /\ pc = "run"
    /\ lastSnap["plug"] # <<>>
    /\ Len(published) = 5
    /\ published[1].topic = <<"zigbee2mqtt", "bridge", "info">>

\* The Tasmota bridges with their refresh timer: setInterval keeps calling the
\* refresh callback, so a tick that stays possible eventually happens.
FairSpecT == InitT /\ [][NextT]_vars /\ WF_vars(RefreshTickT)

\* C22: whenever the script is initialized and running, it is eventually
\* stopped or a refresh tick publishes the topology with a bridge/devices
\* list that holds the description of every registered device.
C22_TopologyRepublished ==
    (initialized /\ pc = "run")
    ~> ( \/ pc = "stopped"
         \/ /\ evt.kind = "trefresh"
            /\ Len(published) = 5
            /\ published[2].topic = <<"zigbee2mqtt", "bridge", "devices">>
            /\ \A d \in 1..Len(tasmotaDevices) :
                  \E j \in 1..Len(published[2].payload) :
                      published[2].payload[j] = tasmotaDevices[d].z2mDevice )

\* A refresh tick has listed both registered devices while the script runs,
\* the second of them registered by a discovery event after the start.
C22_TickListsBoth ==
    /\ evt.kind = "trefresh"
    /\ pc = "run"
    /\ Len(tasmotaDevices) = 2
    /\ tasmotaDevices[1].z2mDevice.friendly_name = "lamp"
    /\ tasmotaDevices[2].z2mDevice.friendly_name = "tasmota_fan"
    /\ \A d \in 1..2 :
          \E j \in 1..Len(published[2].payload) :
              published[2].payload[j] = tasmotaDevices[d].z2mDevice

\* C23: no step removes a key of the registry: every MAC registered before a
\* handler runs is registered after it; and every bridge/devices list a
\* handler publishes holds the description of every registered device that is
\* marked offline.
C23_NoRemoval ==
    [][ /\ \A k \in 1..Len(sonoffDevices) : MapHas(sonoffDevices', sonoffDevices[k].mac)
        /\ Len(sonoffDevices') >= Len(sonoffDevices)
        /\ \A k \in 1..Len(published') :
              published'[k].topic = <<"zigbee2mqtt", "bridge", "devices">>
              => \A d \in 1..Len(sonoffDevices') :
                    sonoffDevices'[d].lastAvailable = JBool(FALSE)
                    => \E j \in 1..Len(published'[k].payload) :
                          published'[k].payload[j] = sonoffDevices'[d].z2mDevice ]_vars

\* A refresh tick has published the device list while the second of two
\* registered devices is marked offline after an availability event.
C23_OfflineStillListed ==
    /\ evt.kind = "refresh"
    /\ Len(sonoffDevices) = 2
    /\ sonoffDevices[2].lastAvailable = JBool(FALSE)
    /\ sonoffDevices[1].lastAvailable = JBool(TRUE)
    /\ published[2].payload[3] = sonoffDevices[2].z2mDevice

\* C24, as stated: a device that is registered keeps its MAC, its
\* friendlyName, its relayCount and its description under every step.
C24_IdentityImmutable ==
    [][ \A k \in 1..Len(sonoffDevices) :
            /\ MapHas(sonoffDevices', sonoffDevices[k].mac)
            /\ LET after == MapGet(sonoffDevices', sonoffDevices[k].mac)
               IN  /\ after.friendlyName = sonoffDevices[k].friendlyName
                   /\ after.relayCount = sonoffDevices[k].relayCount
                   /\ after.z2mDevice = sonoffDevices[k].z2mDevice ]_vars

\* C25, as stated: in the state right after a discovery that registered a
\* device, every entry of the device's lastStates is unknown (null) and so is
\* its lastAvailable.
C25_InitialUnknown ==
    ( /\ evt.kind = "discover"
      /\ Truthy(evt.val)
      /\ evt.relay >= 1
      /\ evt.relay <= MaxRelays )
    => /\ MapHas(sonoffDevices, evt.val.s)
       /\ LET device == MapGet(sonoffDevices, evt.val.s)
          IN  /\ \A i \in 1..device.relayCount : device.lastStates[i] = Null
              /\ device.lastAvailable = Null

C28_RelayListCount ==
    \A k \in 1..Len(tasmotaDevices) :
        LET device == tasmotaDevices[k]
            relays == {j \in 1..Len(device.config.rl) : device.config.rl[j] = 1}
            switches == {e \in 1..Len(device.z2mDevice.exposes) :
                            device.z2mDevice.exposes[e].type = "switch"}
        IN  /\ Cardinality(relays) >= 1
            /\ Cardinality(switches) = Cardinality(relays)

\* C29: the description of every registered device holds exactly relayCount
\* switch exposes, one for each endpoint l1..l<relayCount>, and exactly one
\* linkquality expose, numeric with range 0..255; its endpoint map has exactly
\* the keys 1..relayCount.
C29_DescriptionShape ==
    \A k \in 1..Len(sonoffDevices) :
        LET n == sonoffDevices[k].relayCount
            ex == sonoffDevices[k].z2mDevice.exposes
            switches == {e \in 1..Len(ex) : ex[e].type = "switch"}
            quality == {e \in 1..Len(ex) : ex[e].name = "linkquality"}
        IN  /\ Cardinality(switches) = n
            /\ \A i \in 1..n :
                  Cardinality({e \in switches : ex[e].endpoint = [base |-> "l", i |-> i]}) = 1
            /\ Cardinality(quality) = 1
            /\ \A e \in quality :
                  /\ ex[e].type = "numeric"
                  /\ ex[e].value_min = 0
                  /\ ex[e].value_max = 255
            /\ Len(ex) = n + 1
            /\ DOMAIN sonoffDevices[k].z2mDevice.endpoints = 1..n

\* A device with 28 relays has been registered with a description of 29
\* exposes, the last of them linkquality, and 28 endpoints.
C29_LargestDescription ==
    /\ Len(sonoffDevices) = 1
    /\ sonoffDevices[1].relayCount = 28
    /\ Len(sonoffDevices[1].z2mDevice.exposes) = 29
    /\ sonoffDevices[1].z2mDevice.exposes[29].name = "linkquality"
    /\ Len(sonoffDevices[1].z2mDevice.endpoints) = 28
    /\ evt.kind = "initialized"

C31_SnapshotPerChangeInOrder ==
    (evt.kind \in {"power", "alive"})
    => IF changed
       THEN LET idx == FindByFriendlyName(sonoffDevices, evt.name)
                dev == sonoffDevices[idx]
                key(i) == IF dev.relayCount = 1 THEN [base |-> "state", i |-> 0]
                          ELSE [base |-> "state_l", i |-> i]
            IN  /\ idx # 0
                /\ SnapCount(published) = 1
                /\ published[1].topic = <<"zigbee2mqtt", evt.name>>
                /\ \A i \in 1..dev.relayCount :
                      published[1].payload[key(i)]
                         = IF dev.lastStates[i] = JBool(TRUE) THEN JStr(<<"O", "N">>)
                           ELSE JStr(<<"O", "F", "F">>)
                /\ lastSnap[evt.name] = <<published[1].payload>>
       ELSE SnapCount(published) = 0

\* A state event has switched the first relay of the two-relay device off
\* after an earlier event had switched it on: the second snapshot shows OFF.
C31_LaterSnapshotLast ==
    /\ evt.kind = "power"
    /\ evt.name = "strip"
    /\ evt.relay = 1
    /\ evt.val = JBool(FALSE)
    /\ changed
    /\ LET idx == FindByFriendlyName(sonoffDevices, "strip")
       IN  /\ sonoffDevices[idx].relayCount = 2
           /\ sonoffDevices[idx].lastStates[1] = JBool(FALSE)
           /\ sonoffDevices[idx].lastStates[2] = JBool(TRUE)
    /\ lastSnap["strip"][1][Name("state_l", 1)] = JStr(OFF)

\* C32: a command for a display name that registered devices of the Tasmota
\* bridges carry emits at most one native command, addressed to the topic of
\* the device that was registered first among those with that name; no
\* command goes to the topic of another device with the name.
C32_FirstMatchOnly ==
    evt.kind = "tcommand"
    => LET named == {k \in 1..Len(tasmotaDevices) :
                        tasmotaDevices[k].z2mDevice.friendly_name = evt.name}
       IN  /\ Len(nativeCmds) <= 1
           /\ \A c \in 1..Len(nativeCmds) :
                 \E k \in named :
                     /\ \A j \in named : k <= j
                     /\ nativeCmds[c].dev = tasmotaDevices[k].topic

\* Two devices with the display name "lamp" and different topics are
\* registered, and a command for "lamp" has emitted one native command.
C32_TwoLamps ==
    /\ evt.kind = "tcommand"
    /\ evt.name = "lamp"
    /\ Len(tasmotaDevices) = 2
    /\ tasmotaDevices[1].z2mDevice.friendly_name = "lamp"
    /\ tasmotaDevices[2].z2mDevice.friendly_name = "lamp"
    /\ tasmotaDevices[1].topic = "tasmota_twin"
    /\ tasmotaDevices[2].topic = "tasmota_lamp"
    /\ Len(nativeCmds) = 1
    /\ nativeCmds[1].dev = "tasmota_twin"

\* C33: every request the Data Updater sends is `status 5` or `Template` and
\* goes to a device that processDevice found online and with an IP address;
\* the step that sends `status 5` finds the device online, with that IP
\* address and without MAC value in the state store, and a step that sends
\* `Template` finds no GPIO state of the device; a device that processDevice
\* found offline or without IP address has been sent no request.
C33_RequestsOnlyWhenMissing ==
    updater.pc # "off"
    => /\ \A k \in 1..Len(updater.sent) :
             /\ updater.sent[k].command \in {"status 5", "Template"}
             /\ updater.sent[k].ip.t = "string"
             /\ updater.sent[k].ip.s # <<>>
             /\ updater.results[updater.sent[k].dev] \notin {"offline", "no_ip"}
       /\ updater.last.sent # <<>>
          => LET dp == updater.store[updater.last.dev]
                 sends(command) == \E k \in 1..Len(updater.last.sent) :
                                      updater.last.sent[k] = command
             IN  /\ updater.alive \in {JBool(TRUE), JNum(1)}
                 /\ updater.ip = dp.ip
                 /\ dp.ip.t = "string"
                 /\ sends("status 5")
                    => /\ dp.alive \in {JBool(TRUE), JNum(1)}
                       /\ dp.mac = Null
                 /\ sends("Template") => dp.gpios = 0
       /\ \A f \in DOMAIN updater.results :
             updater.results[f] \in {"offline", "no_ip"}
             => \A k \in 1..Len(updater.sent) : updater.sent[k].dev # f

\* The updater has asked the first device for its MAC and then for its GPIO
\* configuration, and has skipped the second device, which is offline and
\* lacks both.
C33_AskedOneSkippedOther ==
    /\ updater.pc = "done"
    /\ Len(updater.sent) = 2
    /\ updater.sent[1] = [dev |-> "plug", ip |-> JStr(IpA), command |-> "status 5"]
    /\ updater.sent[2] = [dev |-> "plug", ip |-> JStr(IpA), command |-> "Template"]
    /\ updater.results["strip"] = "offline"
    /\ updater.store["strip"].mac = Null
    /\ updater.store["strip"].gpios = 0

\* C34: handling an inbound command leaves the registry (and with it every
\* lastStates and lastAvailable) as it was, and a command that repeats the
\* command handled just before it, with no other event in between, emits the
\* same native commands with the same concrete values: two consecutive TOGGLE
\* commands for one endpoint both ask for the same ON/OFF value.
C34_CommandsLeaveRegistry ==
    [][evt'.kind = "command"
       => /\ sonoffDevices' = sonoffDevices
          /\ evt' = evt => nativeCmds' = nativeCmds]_vars

\* The toggle of the plug's relay was commanded twice in a row and a native
\* command went out.
C34_ToggledTwice ==
    /\ evt.kind = "command"
    /\ evt.name = "plug"
    /\ evt.payload = Obj([k \in {State} |-> JStr(TOGGLE)])
    /\ rep.same
    /\ nativeCmds # <<>>
    /\ rep.cmds = nativeCmds

\* C35: before shutdown, for every registered device for which a state
\* snapshot has been published, the snapshot published last carries for each
\* relay ON if the device's lastStates value of that relay is true and OFF if
\* it is false or unknown.
C35_SnapshotMatchesStates ==
    pc # "stopped"
    => \A k \in 1..Len(sonoffDevices) :
          LET device == sonoffDevices[k]
              name == device.z2mDevice.friendly_name
              key(i) == IF device.relayCount = 1 THEN Name("state", 0)
                        ELSE Name("state_l", i)
          IN  lastSnap[name] # <<>>
              => \A i \in 1..device.relayCount :
                    /\ key(i) \in DOMAIN lastSnap[name][1]
                    /\ lastSnap[name][1][key(i)] =
                          IF device.lastStates[i] = JBool(TRUE) THEN JStr(ON) ELSE JStr(OFF)

\* The strip's second relay was reported on while its first relay was still
\* unknown, and the snapshot shows OFF and ON.
C35_UnknownShownOff ==
    /\ pc = "run"
    /\ \E k \in 1..Len(sonoffDevices) :
          /\ sonoffDevices[k].friendlyName = "strip"
          /\ sonoffDevices[k].lastStates = <<Null, JBool(TRUE)>>
    /\ lastSnap["strip"] # <<>>
    /\ lastSnap["strip"][1][Name("state_l", 1)] = JStr(OFF)
    /\ lastSnap["strip"][1][Name("state_l", 2)] = JStr(ON)

\* C36: before shutdown, for every registered device for which an availability
\* marker has been published, the marker published last says offline exactly
\* when the device's lastAvailable is false; an unknown availability is
\* published as online.
C36_MarkerMatchesAvailable ==
    pc # "stopped"
    => \A k \in 1..Len(sonoffDevices) :
          LET device == sonoffDevices[k]
              name == device.z2mDevice.friendly_name
          IN  lastMarker[name] # <<>>
              => /\ lastMarker[name][1].state \in {"online", "offline"}
                 /\ lastMarker[name][1].state = "offline"
                    <=> device.lastAvailable = JBool(FALSE)

\* A device whose availability is unknown had a state change published, with
\* the marker online.
C36_UnknownShownOnline ==
    /\ pc = "run"
    /\ \E k \in 1..Len(sonoffDevices) :
          /\ sonoffDevices[k].lastAvailable = Null
          /\ lastMarker[sonoffDevices[k].z2mDevice.friendly_name] = <<[state |-> "online"]>>

\* C37: a native state event for a registered device whose relay number is
\* not one of 1..relayCount is ignored: the registry, and with it every
\* lastStates entry, is as before and nothing is published.
C37_OutOfRangeIgnored ==
    \A k \in 1..Len(sonoffDevices) :
       (/\ evt.kind = "power"
        /\ evt.name = sonoffDevices[k].friendlyName
        /\ evt.relay \notin 1..sonoffDevices[k].relayCount)
       => /\ published = <<>>
          /\ ~changed
          /\ nativeCmds = <<>>

\* The single-relay plug got a state event for a second relay.
C37_SecondRelayOfPlug ==
    /\ evt.kind = "power"
    /\ evt.name = "plug"
    /\ evt.relay = 2
    /\ \E k \in 1..Len(sonoffDevices) :
          /\ sonoffDevices[k].friendlyName = "plug"
          /\ sonoffDevices[k].relayCount = 1
          /\ sonoffDevices[k].lastStates # <<ToNewState(evt.val)>>
    /\ published = <<>>

\* C38: a state event for relay i of device D changes at most lastStates[i] of
\* D and publishes on D's topics only: D's other relays, D's lastAvailable and
\* the rest of D's record, and every other device, are as before.  An
\* availability event for D changes at most D's lastAvailable, publishes on D's
\* topics only and leaves every lastStates as it was.
C38_UpdatesAreIsolated ==
    [][evt'.kind \in {"power", "alive"}
       => /\ Len(sonoffDevices') = Len(sonoffDevices)
          /\ \A k \in 1..Len(sonoffDevices) :
                LET old == sonoffDevices[k]
                    new == sonoffDevices'[k]
                IN  /\ old.friendlyName # evt'.name => new = old
                    /\ evt'.kind = "power"
                       => /\ new = [old EXCEPT !.lastStates = new.lastStates]
                          /\ Len(new.lastStates) = Len(old.lastStates)
                          /\ \A r \in 1..Len(old.lastStates) :
                                r # evt'.relay => new.lastStates[r] = old.lastStates[r]
                    /\ evt'.kind = "alive"
                       => new = [old EXCEPT !.lastAvailable = new.lastAvailable]
          /\ \A m \in 1..Len(published') :
                /\ Len(published'[m].topic) >= 2
                /\ published'[m].topic[2] = evt'.name]_vars

\* With both devices registered and the plug's relay on, the strip's second
\* relay changed and then the strip went offline.
C38_StripChangedBesidePlug ==
    /\ evt.kind = "alive"
    /\ evt.name = "strip"
    /\ changed
    /\ Len(published) = 2
    /\ Len(sonoffDevices) = 2
    /\ \E k \in 1..2 : /\ sonoffDevices[k].friendlyName = "plug"
                       /\ sonoffDevices[k].lastStates = <<JBool(TRUE)>>
    /\ \E k \in 1..2 : /\ sonoffDevices[k].friendlyName = "strip"
                       /\ sonoffDevices[k].lastAvailable = JBool(FALSE)
                       /\ sonoffDevices[k].lastStates[2] = JBool(TRUE)

\* C39, as stated: a command to a registered device whose handling raised an
\* error (the payload does not parse to an object, or the value of a state key
\* that is read is no string) has emitted no native command.
C39_AllOrNothing ==
    evt.kind = "command"
    => LET idx == FindByZ2MName(sonoffDevices, evt.name)
       IN  (idx # 0 /\ SetCommandEffects(sonoffDevices[idx], evt.payload).threw)
           => nativeCmds = <<>>

\* C40, as stated: when a command to a registered device carries, for the state
\* key of one of the device's relays, a string that is none of ON, OFF and
\* TOGGLE in any letter case, no native command is emitted for that relay.
C40_UnknownWordsIgnored ==
    (evt.kind = "command" /\ evt.payload.kind = "object")
    => LET idx == FindByZ2MName(sonoffDevices, evt.name)
           obj == evt.payload.obj
       IN  idx # 0
           => \A i \in 1..sonoffDevices[idx].relayCount :
                 LET key == StateProperty(sonoffDevices[idx].relayCount, i)
                 IN  (/\ key \in DOMAIN obj
                      /\ obj[key].t = "string"
                      /\ ToUpperCase(obj[key].s) \notin {ON, OFF, TOGGLE})
                     => \A k \in 1..Len(nativeCmds) :
                           nativeCmds[k].power
                              # Name("POWER", LoopPowerKey(sonoffDevices[idx], i))

====
